---- MODULE Spec2Model ----
(***************************************************************************)
(* Model of the TypeScript RuntimeClient (sdk-typescript/src/              *)
(* runtime-client.ts): one client object, the net.Socket objects it        *)
(* creates, the executeHTTP calls issued on it and the runtime peer.       *)
(*                                                                         *)
(* Every event-loop callback of the client (a socket event handler, a      *)
(* timer callback, a promise continuation) runs to completion, so each is  *)
(* one action.  Bytes are naturals 0..255; buffers are sequences of bytes. *)
(***************************************************************************)
EXTENDS Integers, Sequences, FiniteSets, TLC

\* ---------------------------------------------------------------- bounds
MaxCalls == 2        \* executeHTTP calls issued on the client
MaxSockets == 3      \* net.Socket objects the client may create
MaxConns == 2        \* sockets created in the lifecycle specification
MaxData == 2         \* whole-frame 'data' events in the lifecycle specification
MaxFrames == 3       \* frames the runtime writes in the framing specification
MaxRedundant == 2    \* connect() and close() calls that find nothing to do
MaxNow == 2          \* milliseconds the clock advances

\* ------------------------------------------------ protocol constants
FRAME_LENGTH_SIZE == 4
MESSAGE_TYPE_SIZE == 1
MAX_PAYLOAD_SIZE == 10 * 1024 * 1024
DEFAULT_TIMEOUT_MS == 60000

\* enum ErrorClass
Success == 0
Transient == 1
Permanent == 2
RateLimited == 3
TimeoutClass == 4
InvalidRequest == 5

ErrorClass == {Success, Transient, Permanent, RateLimited, TimeoutClass, InvalidRequest}

\* enum MessageType
ExecuteRequest == 0
ExecuteResponse == 1

\* value of Date.now() when the client is constructed (requestIdSeq seed)
DateNow == 0
\* value of time.Now().UnixNano() when the Go client is constructed
UnixNano == 0

Calls == 1..MaxCalls
Sockets == 1..MaxSockets
NoSocket == 0        \* this.socket === null
NoCall == 0
NoClass == 99        \* a plain Error: no errorClass field
NoId == 0            \* a plain Error: no requestId field

\* no withRetry invocation yet
NoOptions == [maxRetries |-> 0, initialBackoffMs |-> 0, maxBackoffMs |-> 0]
\* let lastError = null
null == [name |-> << >>, message |-> << >>, errorClass |-> NoClass]

VARIABLES
  socket,            \* this.socket: NoSocket or a socket
  sockets,           \* state of every net.Socket the client created
  connTimers,        \* sockets whose connection-timeout timer is armed
  connPromise,       \* state of the promise connect() made with each socket
  connOwner,         \* the executeHTTP call awaiting that promise (or NoCall)
  endCbs,            \* sockets with an end() callback of close() outstanding
  requestIdSeq,      \* this.requestIdSeq
  pendingRequests,   \* this.pendingRequests: requestId -> call whose resolve/reject/timeout it holds
  timers,            \* calls whose deadline timer is armed
  receiveBuffer,     \* this.receiveBuffer
  calls,             \* per executeHTTP call: position, requestId, socket written to, outcome
  crashed,           \* an exception escaped an event handler
  \* history
  settles,           \* per call: how many times its resolve/reject was invoked
  removals,          \* per call: how many times its entry was removed from the table
  discarded,         \* requestIds of responses dropped for want of an entry
  failAlls,          \* per call: how many times handleError/handleClose rejected it
  dispatched,        \* frames handed to processFrame, in order
  peak,              \* most entries the table held when a response found its entry
  anomalies,         \* frames reported as 'Unexpected message type'
  oversized,         \* receiveBuffer length when an oversized frame was first detected, or -1
  wire,              \* bytes written by the runtime and not yet delivered
  sent,              \* frames written by the runtime, in order
  useTcp,            \* this.config.useTcp
  config,            \* this.config: tenantId, workspaceId, timeoutMs
  now,               \* the clock: what Date.now() returns
  outbound,          \* per socket: the bytes the client wrote to it, in order
  armed,             \* history: per call, the delay its deadline timer was armed with
  calledAt,          \* history: per call, the clock when executeHTTP was called (-1 before)
  redundant,         \* history: the connect() and close() calls that found nothing to do, in order
  transport,         \* per socket: what connect() asked it to connect to
  \* RetryHelper.withRetry, one invocation
  retryPc,           \* "idle", "calling" (awaiting fn()), "sleeping", "returned", "thrown"
  options,           \* maxRetries, initialBackoffMs, maxBackoffMs of the invocation
  attempt,           \* the loop variable
  backoffMs,         \* the local backoffMs
  lastError,         \* the local lastError
  fnCalls,           \* history: how many times fn was called
  waits,             \* history: the durations slept, in order
  verdicts,          \* history: per failed attempt, err.isRetryable() and what withRetry did
  \* the Go client (sdk-golang/client.go)
  requestIDSeq,      \* RuntimeClient.requestIDSeq
  goIssued,          \* history: <<goroutine, requestID>> in the order nextRequestID returned
  platform,          \* RuntimeClient.platform (runtime.GOOS), "" before the constructor ran
  envUseTCP,         \* os.Getenv("VASTAR_USE_TCP") == "true"
  newClient,         \* NewRuntimeClientWithOptions: "none" (not called), "client" or "error" (returned)
  dials,             \* history: the dial attempts of connect(), <<network, succeeded>>, in order
  conn,              \* RuntimeClient.conn: "nil", "unix" or "tcp"
  goCalls,           \* per goroutine: where its ExecuteHTTP call stands and the requestID it took
  connOut,           \* what the Write calls put on the connection, in order: <<requestID, part>>
  connIn,            \* frames the peer wrote that no receiveFrame has read yet
  answered,          \* requestIDs the runtime has answered
  returns,           \* history: what each ExecuteHTTP call returned
  allocs             \* history: the payloadLen of every make([]byte, payloadLen) of receiveFrame

vars == <<socket, sockets, connTimers, connPromise, connOwner, endCbs,
          requestIdSeq, pendingRequests, timers, receiveBuffer, calls, crashed,
          settles, removals, discarded, failAlls, dispatched, peak, anomalies,
          oversized, wire, sent, useTcp, config, now, outbound, armed, calledAt, redundant, transport, retryPc, options, attempt,
          backoffMs, lastError, fnCalls, waits, verdicts, requestIDSeq, goIssued,
          platform, envUseTCP, newClient, dials, conn, goCalls, connOut, connIn,
          answered, returns, allocs>>

clientVars == <<socket, sockets, connTimers, connPromise, connOwner, endCbs,
                requestIdSeq, pendingRequests, timers, receiveBuffer, calls, crashed,
                settles, removals, discarded, failAlls, dispatched, peak, anomalies,
                oversized, wire, sent, useTcp, config, now, outbound, armed, calledAt, redundant, transport>>
retryVars == <<retryPc, options, attempt, backoffMs, lastError, fnCalls, waits, verdicts>>
goConnVars == <<platform, envUseTCP, newClient, dials, conn, goCalls, connOut, connIn,
                answered, returns, allocs>>
goVars == <<requestIDSeq, goIssued, goConnVars>>

\* ------------------------------------------------------------- buffers
\* Buffer.readUInt32BE(0).  The checker's integers end at 2^31 - 1: a value with
\* the top bit set reads as 2^31 - 1, which compares with MAX_PAYLOAD_SIZE as
\* the exact value does and is used for nothing else.
readUInt32BE(buf) ==
  IF buf[1] >= 128 THEN 2147483647
  ELSE buf[1] * 16777216 + buf[2] * 65536 + buf[3] * 256 + buf[4]

\* Buffer.writeUInt32BE(n)
writeUInt32BE(n) == << (n \div 16777216) % 256, (n \div 65536) % 256,
                       (n \div 256) % 256, n % 256 >>

\* Buffer.slice(from, to): bytes from..to-1 (0-based), clipped to the buffer
slice(buf, from, to) ==
  LET hi == IF to > Len(buf) THEN Len(buf) ELSE to
  IN IF from >= hi THEN << >> ELSE SubSeq(buf, from + 1, hi)

\* A frame as the runtime writes it: the 4 length bytes and the bytes that follow
EncodeFrame(f) == f.hdr \o f.body
\* a frame whose declared length is the length of its body
Frame(body) == [hdr |-> writeUInt32BE(Len(body)), body |-> body]

\* ExecuteResponse table: requestId, errorClass, payload; an absent field reads
\* as its default (0 / null).  The payload field: 0 absent, 2 bytes that are
\* not JSON, any other value a JSON object (see JSONparse).
fbField(payload, i) == IF Len(payload) >= i THEN payload[i] ELSE 0
PayloadAbsent == 0
PayloadJSON == 1
PayloadGarbage == 2
PayloadNotFound == 3
PayloadCreated == 4
\* The error_message field: 0 absent (errorMessage() returns null), otherwise
\* the index of the string it holds.
MessageAbsent == 0
ErrorMessages == <<"", "quota exceeded">>
errorMessage_none(payload) == "null"
errorMessage(payload) ==
  IF fbField(payload, 4) = MessageAbsent THEN "null" ELSE ErrorMessages[fbField(payload, 4)]
\* an option that was not given (undefined)
Undefined == "undefined"
UndefinedMs == -1
\* a string, null or undefined used as a condition
truthy(a) == a \notin {"null", Undefined, ""}
\* a || b for a string, null or undefined a
orElse(a, b) == IF truthy(a) THEN a ELSE b
\* a || b for a number or undefined a: undefined and 0 are falsy
orElseMs_second(a, b) == b
orElseMs(a, b) == IF a = UndefinedMs \/ a = 0 THEN b ELSE a

NoOutcome == [kind |-> "none", errorClass |-> NoClass, requestId |-> NoId, msg |-> ""]
\* JSON.parse(payloadJSON) of the payloads that are JSON objects: the keys
\* status_code, statusCode, headers and body of the object, a key it does not
\* have reading as undefined.  Headers objects are named by their text.
\*   PayloadJSON      {"status_code":200,"headers":{"content-type":"text/plain"},"body":"ok"}
\*   PayloadNotFound  {"status_code":404,"headers":{},"body":""}
\*   PayloadCreated   {"statusCode":201}
JSONDocuments == {PayloadJSON, PayloadNotFound, PayloadCreated}
JSONparse(payload) ==
  CASE payload = PayloadJSON ->
         [status_code |-> 200, statusCode |-> UndefinedMs,
          headers |-> "{content-type: text/plain}", body |-> "ok"]
    [] payload = PayloadNotFound ->
         [status_code |-> 404, statusCode |-> UndefinedMs, headers |-> "{}", body |-> ""]
    [] payload = PayloadCreated ->
         [status_code |-> UndefinedMs, statusCode |-> 201, headers |-> Undefined,
          body |-> Undefined]
\* Buffer.from(str, 'utf-8')
BufferFrom(str) ==
  CASE str = "ok" -> <<111, 107>>
    [] str = "" -> << >>
\* the HTTPResponse passed to pending.resolve (lines 326-335)
Resolved_camelCase(requestId, httpResponse) ==
  [kind |-> "resolved", errorClass |-> Success, requestId |-> requestId, msg |-> "",
   statusCode |-> orElseMs(httpResponse.statusCode, 0),
   headers |-> orElse(httpResponse.headers, "{}"),
   body |-> IF truthy(httpResponse.body) THEN BufferFrom(httpResponse.body) ELSE << >>]
Resolved(requestId, httpResponse) ==
  [kind |-> "resolved", errorClass |-> Success, requestId |-> requestId, msg |-> "",
   statusCode |-> orElseMs(httpResponse.status_code, orElseMs(httpResponse.statusCode, 0)),
   headers |-> orElse(httpResponse.headers, "{}"),
   body |-> IF truthy(httpResponse.body) THEN BufferFrom(httpResponse.body) ELSE << >>]
\* new ConnectorException(message, errorClass, requestId)
ConnectorException(message, errorClass, requestId) ==
  [kind |-> "rejected", errorClass |-> errorClass, requestId |-> requestId, msg |-> message]
\* ConnectorException.isRetryable()
isRetryable_noTimeout(errorClass) ==
  errorClass = Transient \/ errorClass = RateLimited
isRetryable(errorClass) ==
  errorClass = Transient \/ errorClass = RateLimited \/ errorClass = TimeoutClass

\* new Error(message)
PlainError(message) ==
  [kind |-> "rejected", errorClass |-> NoClass, requestId |-> NoId, msg |-> message]

\* sendFrame lines 206-221: [length:4][type:1][payload:N]
frameBytes_payloadLength(messageType, payload) ==
  writeUInt32BE(Len(payload)) \o <<messageType>> \o payload
frameBytes(messageType, payload) ==
  writeUInt32BE(MESSAGE_TYPE_SIZE + Len(payload)) \o <<messageType>> \o payload

\* The strings a request envelope may hold; builder.createString(s) as the
\* index of s, 0 being the offset of a string that was not created.
Strings == <<"default", "acme", "corp", "ws", "ws2", "trace", "">>
createString(str) == CHOOSE i \in 1..Len(Strings) : Strings[i] = str
\* lines 160-168: let offset = 0; if (str) offset = builder.createString(str)
createIfSet_notNull(str) ==
  IF str \notin {"null", Undefined} THEN createString(str) ELSE 0
createIfSet(str) == IF truthy(str) THEN createString(str) ELSE 0

\* ExecuteRequest table (lines 171-183): requestId, tenantId, workspaceId,
\* traceId, deadlineAtMs; a field that was not added reads as 0
requestBytes(requestId, tenantId, workspaceId, traceId, deadlineMs) ==
  <<requestId, createString(tenantId), createIfSet(workspaceId), createIfSet(traceId),
    deadlineMs>>

\* the constructor's defaults (lines 52-55)
constructor(cfg) ==
  [tenantId |-> orElse(cfg.tenantId, "default"),
   workspaceId |-> orElse(cfg.workspaceId, ""),
   timeoutMs |-> orElseMs(cfg.timeoutMs, DEFAULT_TIMEOUT_MS)]
\* new RuntimeClient(): no option given
NoConfig == [tenantId |-> Undefined, workspaceId |-> Undefined, timeoutMs |-> UndefinedMs]
\* a request that overrides nothing
NoOverrides == [tenantId |-> Undefined, workspaceId |-> Undefined, traceId |-> Undefined,
                timeoutMs |-> UndefinedMs]

\* ------------------------------------------------- the client's state
\* The part of the client that the socket handlers read and write, as a record,
\* so that a handler that calls another handler is one step.
Client ==
  [pendingRequests |-> pendingRequests, timers |-> timers,
   receiveBuffer |-> receiveBuffer, calls |-> calls, crashed |-> crashed,
   settles |-> settles, removals |-> removals, discarded |-> discarded,
   failAlls |-> failAlls, dispatched |-> dispatched, peak |-> peak,
   anomalies |-> anomalies, oversized |-> oversized, outbound |-> outbound,
   armed |-> armed]

\* Map.delete(key)
MapDelete(m, k) == [x \in (DOMAIN m) \ {k} |-> m[x]]
\* Map.set(key, value)
MapSet(m, k, v) == [x \in (DOMAIN m) \cup {k} |-> IF x = k THEN v ELSE m[x]]
EmptyMap == [x \in {} |-> NoCall]

\* pending.resolve(value) / pending.reject(err) of the promise made by
\* waitForResponse for call c: the first invocation settles the promise,
\* a later one changes nothing.
settle(st, c, out) ==
  [st EXCEPT !.calls[c] = IF @.pc = "waiting"
                            THEN [@ EXCEPT !.pc = "done", !.outcome = out,
                                           !.sock = NoSocket, !.writeOk = FALSE,
                                           !.request = NoOverrides, !.timeoutMs = 0]
                            ELSE @,
             !.settles[c] = @ + 1]

\* this.pendingRequests.get(requestId)
getPending_byPosition(st, requestId) ==
  IF DOMAIN st.pendingRequests = {} THEN NoCall
  ELSE st.pendingRequests[CHOOSE r \in DOMAIN st.pendingRequests :
                            \A q \in DOMAIN st.pendingRequests : r <= q]
getPending(st, requestId) ==
  IF requestId \in DOMAIN st.pendingRequests THEN st.pendingRequests[requestId]
  ELSE NoCall

\* this.pendingRequests.delete(requestId), counting the removal of a present entry
deleteEntry(st, requestId) ==
  IF requestId \in DOMAIN st.pendingRequests
  THEN [st EXCEPT !.removals[st.pendingRequests[requestId]] = @ + 1,
                  !.pendingRequests = MapDelete(@, requestId)]
  ELSE st

\* this.pendingRequests.delete(requestId); clearTimeout(pending.timeout)
takePending_keepTimer(st, requestId, pending) ==
  deleteEntry(st, requestId)
takePending(st, requestId, pending) ==
  [deleteEntry(st, requestId) EXCEPT !.timers = @ \ {pending}]

\* line 283: messageType !== MessageType.ExecuteResponse
unexpectedType_never(messageType) == FALSE
unexpectedType(messageType) == messageType # ExecuteResponse

\* processFrame(frameData)
processFrame(st0, frameData) ==
  LET st == [st0 EXCEPT !.dispatched = Append(@, frameData)] IN
  IF Len(frameData) < MESSAGE_TYPE_SIZE
  THEN \* frameData.readUInt8(0) throws RangeError
       [st EXCEPT !.crashed = TRUE]
  ELSE
  LET messageType == frameData[1]
      payload == slice(frameData, MESSAGE_TYPE_SIZE, Len(frameData))
      requestId == fbField(payload, 1)
      errorClass == fbField(payload, 2)
      responsePayload == fbField(payload, 3)
      pending == getPending(st, requestId)
  IN
  IF unexpectedType(messageType)
  THEN [st EXCEPT !.anomalies = Append(@, frameData)]
  ELSE IF pending = NoCall
  THEN [st EXCEPT !.discarded = @ \cup {requestId}]
  ELSE
  LET n == Cardinality(DOMAIN st.pendingRequests)
      taken == takePending([st EXCEPT !.peak = IF n > @ THEN n ELSE @],
                           requestId, pending) IN
  IF errorClass # Success
  THEN settle(taken, pending,
              ConnectorException(orElse(errorMessage(payload), "Unknown error"),
                                 errorClass, requestId))
  ELSE IF responsePayload = PayloadAbsent
  THEN settle(taken, pending,
              ConnectorException("Empty response payload", Permanent, requestId))
  ELSE IF responsePayload \in JSONDocuments
  THEN settle(taken, pending, Resolved(requestId, JSONparse(responsePayload)))
  ELSE settle(taken, pending,
              ConnectorException("Failed to parse response", Permanent, requestId))

\* The entries of the table in iteration order (Array.from(entries())):
\* the order does not matter to the result, every entry is visited.
RECURSIVE rejectAll(_, _, _)
rejectAll(st, ids, message) ==
  IF ids = {} THEN st
  ELSE LET requestId == CHOOSE r \in ids : \A q \in ids : r <= q
           pending == st.pendingRequests[requestId]
           cleared == [st EXCEPT !.timers = @ \ {pending},
                                 !.failAlls[pending] = @ + 1]
       IN rejectAll(settle(cleared, pending,
                           ConnectorException(message, Transient, requestId)),
                    ids \ {requestId}, message)

\* this.pendingRequests.clear()
clearPending(st) ==
  [st EXCEPT !.removals = [c \in Calls |->
                IF \E r \in DOMAIN st.pendingRequests : st.pendingRequests[r] = c
                THEN @[c] + 1 ELSE @[c]],
             !.pendingRequests = EmptyMap]

\* handleError(err)
handleError_keepEntries(st, message) ==
  rejectAll(st, DOMAIN st.pendingRequests, message)
handleError(st, message) ==
  clearPending(rejectAll(st, DOMAIN st.pendingRequests, message))

\* handleClose(), the part that touches the pending table
handleClose(st) ==
  clearPending(rejectAll(st, DOMAIN st.pendingRequests, "Connection closed"))

\* the frame bytes handleData cuts out of the receive buffer
extractFrame_short(buf, totalFrameSize) ==
  slice(buf, FRAME_LENGTH_SIZE, totalFrameSize - 1)
extractFrame(buf, totalFrameSize) ==
  slice(buf, FRAME_LENGTH_SIZE, totalFrameSize)

\* the while loop of handleData
RECURSIVE handleDataLoop(_)
handleDataLoop(st) ==
  IF st.crashed \/ Len(st.receiveBuffer) < FRAME_LENGTH_SIZE THEN st
  ELSE
  LET frameLength == readUInt32BE(st.receiveBuffer)
      totalFrameSize == FRAME_LENGTH_SIZE + frameLength
  IN
  IF frameLength > MAX_PAYLOAD_SIZE
  THEN handleError([st EXCEPT !.oversized =
                       IF @ = -1 THEN Len(st.receiveBuffer) ELSE @],
                   "Invalid frame length")
  ELSE IF Len(st.receiveBuffer) < totalFrameSize
  THEN st
  ELSE
  LET frameData == extractFrame(st.receiveBuffer, totalFrameSize)
      rest == slice(st.receiveBuffer, totalFrameSize, Len(st.receiveBuffer))
  IN handleDataLoop(processFrame([st EXCEPT !.receiveBuffer = rest], frameData))

\* handleData(data)
handleData(st, data) ==
  handleDataLoop([st EXCEPT !.receiveBuffer = @ \o data])

\* the timer callback armed by waitForResponse for call c
onTimeout_keepEntry(st, c) ==
  settle([st EXCEPT !.timers = @ \ {c}], c,
         ConnectorException("Request timeout", TimeoutClass, st.calls[c].requestId))
onTimeout(st, c) ==
  LET requestId == st.calls[c].requestId
      fired == deleteEntry([st EXCEPT !.timers = @ \ {c}], requestId)
  IN settle(fired, c, ConnectorException("Request timeout", TimeoutClass, requestId))

\* waitForResponse(requestId, timeoutMs) for call c
waitForResponse_noTimer(st, c, requestId, timeoutMs) ==
  [st EXCEPT !.armed[c] = timeoutMs,
             !.pendingRequests = MapSet(@, requestId, c),
             !.calls[c] = [@ EXCEPT !.pc = "waiting", !.sock = NoSocket,
                                    !.writeOk = FALSE, !.request = NoOverrides,
                                    !.timeoutMs = 0]]
waitForResponse(st, c, requestId, timeoutMs) ==
  [st EXCEPT !.timers = @ \cup {c},
             !.armed[c] = timeoutMs,
             !.pendingRequests = MapSet(@, requestId, c),
             !.calls[c] = [@ EXCEPT !.pc = "waiting", !.sock = NoSocket,
                                    !.writeOk = FALSE, !.request = NoOverrides,
                                    !.timeoutMs = 0]]

\* the variables of the client record after a handler ran
Becomes(st) ==
  /\ pendingRequests' = st.pendingRequests
  /\ timers' = st.timers
  /\ receiveBuffer' = st.receiveBuffer
  /\ calls' = st.calls
  /\ crashed' = st.crashed
  /\ settles' = st.settles
  /\ removals' = st.removals
  /\ discarded' = st.discarded
  /\ failAlls' = st.failAlls
  /\ dispatched' = st.dispatched
  /\ peak' = st.peak
  /\ anomalies' = st.anomalies
  /\ oversized' = st.oversized
  /\ outbound' = st.outbound
  /\ armed' = st.armed

\* --------------------------------------------------------------- sockets
\* A net.Socket: "none" (not created), "connecting", "open", "endedConnecting"
\* and "ended" (end() called, 'finish' not yet emitted), "finished" (our side
\* finished, the peer has not closed), "destroyed" ('close' not yet emitted),
\* "closed" ('close' emitted).
Live == {"connecting", "endedConnecting", "open", "ended", "finished"}
Readable == {"open", "ended", "finished"}
Created == {s \in Sockets : sockets[s] # "none"}
NewSocket == Cardinality(Created) + 1

NoCallRec == [pc |-> "idle", requestId |-> NoId, sock |-> NoSocket,
              writeOk |-> FALSE, outcome |-> NoOutcome, request |-> NoOverrides,
              timeoutMs |-> 0]

\* socket.destroy()
destroyed(s) == IF sockets[s] \in Live THEN [sockets EXCEPT ![s] = "destroyed"] ELSE sockets
\* this.socket after the end() callback of close() ran for socket s, if one is
\* outstanding (this.socket = null)
socketAfterEndCb(s, cur) == IF s \in endCbs THEN NoSocket ELSE cur
\* Whether a stream that is destroyed before 'finish' still calls the end()
\* callbacks depends on the version of the stream implementation: both happen.
EndCbOnDestroy == BOOLEAN

\* connect(), lines 89-101: the address the new socket is asked to connect to
connectTarget(tcp) == IF tcp THEN "tcp" ELSE "unix"

\* connect(), lines 81-111: a new socket with the client's handlers, the
\* connection attempt and the connection timer
newSocket(owner) ==
  /\ NewSocket \in Sockets
  /\ socket' = NewSocket
  /\ sockets' = [sockets EXCEPT ![NewSocket] = "connecting"]
  /\ connTimers' = connTimers \cup {NewSocket}
  /\ connPromise' = [connPromise EXCEPT ![NewSocket] = "pending"]
  /\ connOwner' = [connOwner EXCEPT ![NewSocket] = owner]
  /\ transport' = [transport EXCEPT ![NewSocket] = connectTarget(useTcp)]

\* executeHTTP lines 122-195 up to the first suspension, for the call c whose
\* request is st.calls[c].request: the next requestId, the defaults, the
\* envelope, then sendFrame, which throws without a socket and otherwise
\* writes the frame in one socket.write
issue(st, c, cur, socks) ==
  LET request == st.calls[c].request
      requestId == requestIdSeq + 1
      tenantId == orElse(request.tenantId, config.tenantId)
      workspaceId == orElse(request.workspaceId, config.workspaceId)
      timeoutMs == orElseMs(request.timeoutMs, config.timeoutMs)
      deadlineMs == now + timeoutMs
      requestBytesOut == requestBytes(requestId, tenantId, workspaceId,
                                      request.traceId, deadlineMs)
      writeOk == socks[cur] \in {"connecting", "open"}
  IN
  IF cur = NoSocket
  THEN [st EXCEPT !.calls[c] = [@ EXCEPT !.pc = "done", !.requestId = requestId,
                                         !.request = NoOverrides,
                                         !.outcome = PlainError("Not connected to runtime")],
                  !.settles[c] = @ + 1]
  ELSE [st EXCEPT !.calls[c] = [@ EXCEPT !.pc = "awaitWrite", !.requestId = requestId,
                                         !.sock = cur, !.timeoutMs = timeoutMs,
                                         !.writeOk = writeOk],
                  !.outbound[cur] = IF writeOk
                                    THEN @ \o frameBytes(ExecuteRequest, requestBytesOut)
                                    ELSE @]

\* the executeHTTP call that awaits the promise connect() made with socket s
Awaiting(s) ==
  IF connOwner[s] # NoCall /\ calls[connOwner[s]].pc = "awaitConnect"
     /\ connPromise[s] = "pending"
  THEN connOwner[s] ELSE NoCall

\* connect(), called by the application
Connect ==
  /\ ~crashed
  /\ UNCHANGED <<useTcp, config, now, calledAt, redundant, retryVars, goVars>>
  /\ socket = NoSocket
  /\ newSocket(NoCall)
  /\ UNCHANGED <<outbound, armed, endCbs, requestIdSeq, pendingRequests, timers, receiveBuffer, calls,
                 crashed, settles, removals, discarded, failAlls, dispatched, peak,
                 anomalies, oversized, wire, sent>>

\* executeHTTP(request), up to its first suspension
ExecuteHTTPReq(c, request) ==
  /\ ~crashed
  /\ UNCHANGED <<useTcp, config, now, redundant, retryVars, goVars>>
  /\ calledAt' = [calledAt EXCEPT ![c] = now]
  /\ calls[c].pc = "idle"
  /\ \A b \in Calls : b < c => calls[b].pc # "idle"   \* calls are numbered in issue order
  /\ IF socket = NoSocket
     THEN /\ newSocket(c)
          /\ calls' = [calls EXCEPT ![c].pc = "awaitConnect", ![c].request = request]
          /\ UNCHANGED <<requestIdSeq, settles, outbound>>
     ELSE /\ requestIdSeq' = requestIdSeq + 1
          /\ LET st == issue([Client EXCEPT !.calls[c].request = request],
                             c, socket, sockets)
             IN calls' = st.calls /\ settles' = st.settles /\ outbound' = st.outbound
          /\ UNCHANGED <<socket, sockets, connTimers, connPromise, connOwner, transport>>
  /\ UNCHANGED <<endCbs, pendingRequests, timers, receiveBuffer, crashed, removals,
                 discarded, failAlls, dispatched, peak, anomalies, oversized, wire, sent,
                 armed>>

\* executeHTTP({method, url}): a request that overrides nothing
ExecuteHTTP(c) == ExecuteHTTPReq(c, NoOverrides)

\* 'connect' event of socket s: the connect callback resolves the promise, the
\* once('connect') handler clears the connection timer, and the executeHTTP
\* call awaiting the promise continues
ConnectOk(s) ==
  /\ ~crashed
  /\ UNCHANGED <<useTcp, config, now, calledAt, redundant, retryVars, goVars>>
  /\ sockets[s] \in {"connecting", "endedConnecting"}
  /\ sockets' = [sockets EXCEPT ![s] = IF @ = "connecting" THEN "open" ELSE "ended"]
  /\ connTimers' = connTimers \ {s}
  /\ connPromise' = [connPromise EXCEPT ![s] = IF @ = "pending" THEN "resolved" ELSE @]
  /\ IF Awaiting(s) # NoCall
     THEN /\ requestIdSeq' = requestIdSeq + 1
          /\ LET st == issue(Client, Awaiting(s), socket, sockets')
             IN calls' = st.calls /\ settles' = st.settles /\ outbound' = st.outbound
     ELSE UNCHANGED <<requestIdSeq, calls, settles, outbound>>
  /\ connOwner' = [connOwner EXCEPT ![s] = NoCall]
  /\ UNCHANGED <<socket, endCbs, transport, armed, pendingRequests, timers, receiveBuffer,
                 crashed, removals, discarded, failAlls, dispatched, peak, anomalies,
                 oversized, wire, sent>>

\* the connection timer of socket s fires: this.socket?.destroy(); reject(...)
ConnectTimeout(s) ==
  /\ ~crashed
  /\ UNCHANGED <<useTcp, config, now, calledAt, redundant, retryVars, goVars>>
  /\ s \in connTimers
  /\ connTimers' = connTimers \ {s}
  /\ IF socket # NoSocket
     THEN /\ sockets' = destroyed(socket)
          /\ \E fire \in EndCbOnDestroy :
               socket' = IF sockets[socket] \in Live /\ fire
                         THEN socketAfterEndCb(socket, socket) ELSE socket
          /\ endCbs' = IF sockets[socket] \in Live THEN endCbs \ {socket} ELSE endCbs
     ELSE UNCHANGED <<socket, sockets, endCbs>>
  /\ connPromise' = [connPromise EXCEPT ![s] = IF @ = "pending" THEN "rejected" ELSE @]
  /\ IF Awaiting(s) # NoCall
     THEN /\ calls' = [calls EXCEPT ![Awaiting(s)] =
                         [@ EXCEPT !.pc = "done", !.request = NoOverrides,
                                   !.outcome = PlainError("Connection timeout")]]
          /\ settles' = [settles EXCEPT ![Awaiting(s)] = @ + 1]
     ELSE UNCHANGED <<calls, settles>>
  /\ connOwner' = [connOwner EXCEPT ![s] = NoCall]
  /\ UNCHANGED <<transport, outbound, armed, requestIdSeq, pendingRequests, timers, receiveBuffer,
                 crashed, removals, discarded, failAlls, dispatched, peak, anomalies,
                 oversized, wire, sent>>

\* 'error' event of socket s: handleError(err) and, the first time, the
\* once('error') handler that clears the connection timer; the socket is
\* destroyed and its 'close' event follows
SocketError(s) ==
  /\ ~crashed
  /\ UNCHANGED <<useTcp, config, now, calledAt, redundant, retryVars, goVars>>
  /\ sockets[s] \in Live
  /\ sockets' = destroyed(s)
  /\ \E fire \in EndCbOnDestroy :
       socket' = IF fire THEN socketAfterEndCb(s, socket) ELSE socket
  /\ endCbs' = endCbs \ {s}
  /\ connTimers' = connTimers \ {s}
  /\ Becomes(handleError(Client, "socket error"))
  /\ UNCHANGED <<connPromise, connOwner, transport, requestIdSeq, wire, sent>>

\* 'close' event of socket s: handleClose()
SocketClose(s) ==
  /\ ~crashed
  /\ UNCHANGED <<useTcp, config, now, calledAt, redundant, retryVars, goVars>>
  /\ sockets[s] \in {"open", "ended", "finished", "destroyed"}
  /\ sockets' = [sockets EXCEPT ![s] = "closed"]
  /\ socket' = NoSocket
  /\ endCbs' = endCbs \ {s}
  /\ Becomes(handleClose(Client))
  /\ UNCHANGED <<connTimers, connPromise, connOwner, transport, requestIdSeq, wire, sent>>

\* the writes queued on socket s before end() was called
QueuedWrites(s) ==
  {c \in Calls : calls[c].pc = "awaitWrite" /\ calls[c].sock = s /\ calls[c].writeOk}

\* 'finish' of socket s after end(): the callback of close() runs
\* (this.socket = null; resolve())
SocketFinish(s) ==
  /\ ~crashed
  /\ UNCHANGED <<useTcp, config, now, calledAt, redundant, retryVars, goVars>>
  /\ sockets[s] = "ended"
  /\ QueuedWrites(s) = {}
  /\ sockets' = [sockets EXCEPT ![s] = "finished"]
  /\ socket' = socketAfterEndCb(s, socket)
  /\ endCbs' = endCbs \ {s}
  /\ UNCHANGED <<outbound, armed, connTimers, connPromise, connOwner, transport, requestIdSeq, pendingRequests,
                 timers, receiveBuffer, calls, crashed, settles, removals, discarded,
                 failAlls, dispatched, peak, anomalies, oversized, wire, sent>>

\* close(), called by the application, on a socket that no close() has ended
\* and not yet seen finish
Close ==
  /\ ~crashed
  /\ UNCHANGED <<useTcp, config, now, calledAt, redundant, retryVars, goVars>>
  /\ socket # NoSocket
  /\ sockets[socket] \notin {"endedConnecting", "ended"}
  /\ IF sockets[socket] \in {"connecting", "open"}
     THEN /\ sockets' = [sockets EXCEPT ![socket] =
                           IF @ = "connecting" THEN "endedConnecting" ELSE "ended"]
          /\ endCbs' = endCbs \cup {socket}
          /\ UNCHANGED socket
     ELSE \* end() on a finished or destroyed stream calls back at once
          /\ socket' = NoSocket
          /\ UNCHANGED <<sockets, endCbs>>
  /\ UNCHANGED <<outbound, armed, connTimers, connPromise, connOwner, transport, requestIdSeq, pendingRequests,
                 timers, receiveBuffer, calls, crashed, settles, removals, discarded,
                 failAlls, dispatched, peak, anomalies, oversized, wire, sent>>

\* everything a redundant call leaves alone
untouched ==
  <<socket, sockets, connTimers, connPromise, connOwner, endCbs, requestIdSeq,
    pendingRequests, timers, receiveBuffer, calls, crashed, settles, removals,
    discarded, failAlls, dispatched, peak, anomalies, oversized, wire, sent, useTcp,
    config, now, calledAt, outbound, armed, transport, retryVars, goVars>>

\* close() on a socket that an earlier close() ended and that has not finished:
\* end(cb) again, the callback joins the one already waiting for 'finish'
CloseAgain ==
  /\ ~crashed
  /\ socket # NoSocket
  /\ sockets[socket] \in {"endedConnecting", "ended"}
  /\ Len(redundant) < MaxRedundant
  /\ redundant' = Append(redundant, "closeAgain")
  /\ endCbs' = endCbs \cup {socket}
  /\ UNCHANGED <<socket, sockets, connTimers, connPromise, connOwner, requestIdSeq,
                 pendingRequests, timers, receiveBuffer, calls, crashed, settles,
                 removals, discarded, failAlls, dispatched, peak, anomalies, oversized,
                 wire, sent, useTcp, config, now, calledAt, outbound, armed,
                 transport, retryVars, goVars>>

\* close() without a socket (line 400 is false): the async function returns,
\* its promise resolves
CloseIdle_failsPending ==
  /\ ~crashed
  /\ socket = NoSocket
  /\ Len(redundant) < MaxRedundant
  /\ redundant' = Append(redundant, "closeIdle")
  /\ Becomes(handleClose(Client))
  /\ UNCHANGED <<socket, sockets, connTimers, connPromise, connOwner, endCbs,
                 requestIdSeq, wire, sent, useTcp, config, now, calledAt, transport,
                 retryVars, goVars>>
CloseIdle ==
  /\ ~crashed
  /\ socket = NoSocket
  /\ Len(redundant) < MaxRedundant
  /\ redundant' = Append(redundant, "closeIdle")
  /\ UNCHANGED untouched

\* connect() with a socket (line 77 is true): return
ConnectAgain_reopens ==
  /\ ~crashed
  /\ socket # NoSocket
  /\ Len(redundant) < MaxRedundant
  /\ redundant' = Append(redundant, "connect")
  /\ newSocket(NoCall)
  /\ UNCHANGED <<endCbs, requestIdSeq, pendingRequests, timers, receiveBuffer, calls,
                 crashed, settles, removals, discarded, failAlls, dispatched, peak,
                 anomalies, oversized, wire, sent, useTcp, config, now, calledAt, outbound,
                 armed, retryVars, goVars>>
ConnectAgain ==
  /\ ~crashed
  /\ socket # NoSocket
  /\ Len(redundant) < MaxRedundant
  /\ redundant' = Append(redundant, "connect")
  /\ UNCHANGED untouched

\* the write callback of sendFrame reports success: executeHTTP continues
\* with waitForResponse
WriteDone(c) ==
  /\ ~crashed
  /\ UNCHANGED <<useTcp, config, now, calledAt, redundant, retryVars, goVars>>
  /\ calls[c].pc = "awaitWrite"
  /\ calls[c].writeOk
  /\ sockets[calls[c].sock] \in {"open", "ended"}
  /\ Becomes(waitForResponse(Client, c, calls[c].requestId, calls[c].timeoutMs))
  /\ UNCHANGED <<socket, sockets, connTimers, connPromise, connOwner, transport, endCbs,
                 requestIdSeq, wire, sent>>

\* the write callback of sendFrame reports an error: executeHTTP rejects with it
WriteFail_leavesEntry(c) ==
  /\ ~crashed
  /\ UNCHANGED <<useTcp, config, now, calledAt, redundant, retryVars, goVars>>
  /\ calls[c].pc = "awaitWrite"
  /\ \/ ~calls[c].writeOk
     \/ sockets[calls[c].sock] \in {"destroyed", "closed"}
  /\ LET st == waitForResponse(Client, c, calls[c].requestId, calls[c].timeoutMs)
     IN Becomes([st EXCEPT !.calls[c] = [@ EXCEPT !.pc = "done",
                                                  !.outcome = PlainError("write failed")],
                           !.settles[c] = @ + 1])
  /\ UNCHANGED <<socket, sockets, connTimers, connPromise, connOwner, transport, endCbs,
                 requestIdSeq, wire, sent>>
WriteFail(c) ==
  /\ ~crashed
  /\ UNCHANGED <<useTcp, config, now, calledAt, redundant, retryVars, goVars>>
  /\ calls[c].pc = "awaitWrite"
  /\ \/ ~calls[c].writeOk
     \/ sockets[calls[c].sock] \in {"destroyed", "closed"}
  /\ calls' = [calls EXCEPT ![c] = [@ EXCEPT !.pc = "done", !.sock = NoSocket,
                                             !.writeOk = FALSE, !.timeoutMs = 0,
                                             !.request = NoOverrides,
                                             !.outcome = PlainError("write failed")]]
  /\ settles' = [settles EXCEPT ![c] = @ + 1]
  /\ UNCHANGED <<outbound, armed, socket, sockets, connTimers, connPromise, connOwner, transport, endCbs,
                 requestIdSeq, pendingRequests, timers, receiveBuffer, crashed,
                 removals, discarded, failAlls, dispatched, peak, anomalies, oversized,
                 wire, sent>>

\* the deadline timer of call c fires
Timeout(c) ==
  /\ ~crashed
  /\ UNCHANGED <<useTcp, config, now, calledAt, redundant, retryVars, goVars>>
  /\ c \in timers
  /\ Becomes(onTimeout(Client, c))
  /\ UNCHANGED <<socket, sockets, connTimers, connPromise, connOwner, transport, endCbs,
                 requestIdSeq, wire, sent>>

\* ---------------------------------------------------------- the runtime
IssuableIds == (DateNow + 1)..(DateNow + MaxCalls)

\* body of an ExecuteResponse frame: type byte and the response table
Response(requestId, errorClass, payload) ==
  Frame(<<ExecuteResponse, requestId, errorClass, payload>>)

\* an ExecuteResponse frame with an error_message
ResponseMsg(requestId, errorClass, payload, message) ==
  Frame(<<ExecuteResponse, requestId, errorClass, payload, message>>)

\* the responses of the runtime in the response specification: to each request,
\* a success with each kind of payload or RateLimited with each kind of message
ResponseFrames ==
  {ResponseMsg(r, Success, p, MessageAbsent) :
     r \in IssuableIds, p \in {PayloadAbsent, PayloadJSON, PayloadGarbage}}
  \cup {ResponseMsg(r, RateLimited, PayloadAbsent, m) :
     r \in IssuableIds, m \in 0..Len(ErrorMessages)}

\* the successes of the runtime in the payload specification: to each request,
\* each of the JSON objects
PayloadFrames ==
  {ResponseMsg(r, Success, p, MessageAbsent) : r \in IssuableIds, p \in JSONDocuments}

\* the frames the runtime answers with in the lifecycle specification
WholeFrames ==
  {Response(r, Success, PayloadJSON) : r \in IssuableIds}

\* 'data' event of socket s carrying one whole frame
SocketData(s, f) ==
  /\ ~crashed
  /\ UNCHANGED <<useTcp, config, now, calledAt, redundant, retryVars, goVars>>
  /\ sockets[s] \in Readable
  /\ Len(dispatched) < MaxData
  /\ Becomes(handleData(Client, EncodeFrame(f)))
  /\ UNCHANGED <<socket, sockets, connTimers, connPromise, connOwner, transport, endCbs,
                 requestIdSeq, wire, sent>>

\* the frames the runtime writes in the framing specification: a response to
\* the first request, a response with no table, a frame of another type, a
\* frame declaring length 0 and a frame declaring length 0xFFFFFFFF
StreamFrames ==
  {Response(DateNow + 1, Success, PayloadJSON), Frame(<<ExecuteResponse>>),
   Frame(<<ExecuteRequest>>), Frame(<< >>),
   [hdr |-> <<255, 255, 255, 255>>, body |-> << >>]}

\* the runtime writes frame f to the connection
RuntimeWrite(f) ==
  /\ ~crashed
  /\ UNCHANGED <<useTcp, config, now, calledAt, redundant, retryVars, goVars>>
  /\ socket # NoSocket /\ sockets[socket] = "open"
  /\ Len(sent) < MaxFrames
  /\ sent' = Append(sent, f)
  /\ wire' = wire \o EncodeFrame(f)
  /\ UNCHANGED <<outbound, armed, socket, sockets, connTimers, connPromise, connOwner, transport, endCbs,
                 requestIdSeq, pendingRequests, timers, receiveBuffer, calls,
                 crashed, settles, removals, discarded, failAlls, dispatched, peak,
                 anomalies, oversized>>

\* 'data' event carrying the next k bytes of the stream
Deliver(k) ==
  /\ ~crashed
  /\ UNCHANGED <<useTcp, config, now, calledAt, redundant, retryVars, goVars>>
  /\ socket # NoSocket /\ sockets[socket] = "open"
  /\ k \in 1..Len(wire)
  /\ wire' = slice(wire, k, Len(wire))
  /\ Becomes(handleData(Client, slice(wire, 0, k)))
  /\ UNCHANGED <<socket, sockets, connTimers, connPromise, connOwner, transport, endCbs,
                 requestIdSeq, sent>>


\* ------------------------------------------------ RetryHelper.withRetry
MaxRetries == 2      \* largest options.maxRetries
MaxBackoff == 3      \* largest options.initialBackoffMs and options.maxBackoffMs

\* Strings that are searched are sequences of characters.
\* String.prototype.includes(sub)
includes(str, sub) ==
  \E i \in 0..(Len(str) - Len(sub)) : SubSeq(str, i + 1, i + Len(sub)) = sub
\* Error.prototype.toString(): name + ": " + message, or the name alone when
\* the message is empty
toString(err) ==
  IF err.message = << >> THEN err.name ELSE err.name \o <<":", " ">> \o err.message

\* the default of options.retryableErrors
retryableErrors ==
  {<<"T", "r", "a", "n", "s", "i", "e", "n", "t">>,
   <<"R", "a", "t", "e", "L", "i", "m", "i", "t", "e", "d">>,
   <<"T", "i", "m", "e", "o", "u", "t">>}

\* ConnectorException as fn (a call of executeHTTP) throws it
ThrownException(message, errorClass) ==
  [name |-> <<"C", "o", "n", "n", "e", "c", "t", "o", "r", "E", "x", "c", "e", "p", "t", "i", "o", "n">>,
   message |-> message, errorClass |-> errorClass]
\* the errors fn fails with: the client's own 'Request timeout' and
\* 'Connection closed', and errors reported by the runtime with its messages
RequestTimeout == ThrownException(<<"R", "e", "q", "u", "e", "s", "t", " ", "t", "i", "m", "e", "o", "u", "t">>, TimeoutClass)
ConnectionClosed == ThrownException(<<"C", "o", "n", "n", "e", "c", "t", "i", "o", "n", " ", "c", "l", "o", "s", "e", "d">>, Transient)
QuotaExceeded == ThrownException(<<"q", "u", "o", "t", "a", " ", "e", "x", "c", "e", "e", "d", "e", "d">>, RateLimited)
TransientFault == ThrownException(<<"T", "r", "a", "n", "s", "i", "e", "n", "t", " ", "f", "a", "u", "l", "t">>, Transient)
UpstreamTimeout == ThrownException(<<"T", "i", "m", "e", "o", "u", "t", " ", "u", "p", "s", "t", "r", "e", "a", "m">>, Permanent)
BadUrl == ThrownException(<<"b", "a", "d", " ", "u", "r", "l">>, InvalidRequest)
FnErrors == {RequestTimeout, ConnectionClosed, QuotaExceeded, TransientFault,
             UpstreamTimeout, BadUrl}

\* Go: the values of ipc.ErrorClass that client.go names (the generated
\* package is the same schema enum as the TypeScript ErrorClass)
ErrorClassTransient == 1
ErrorClassRateLimited == 3
ErrorClassTimeout == 4
\* Go: ConnectorError.IsRetryable
IsRetryable(errorClass) ==
  errorClass = ErrorClassTransient \/ errorClass = ErrorClassRateLimited
    \/ errorClass = ErrorClassTimeout

\* Math.min(a, b)
Min(a, b) == IF a < b THEN a ELSE b

\* what withRetry decides about a failed attempt (lines 97-100)
matchesRetryable(err) ==
  \E errorType \in retryableErrors : includes(toString(err), errorType)

\* the next backoffMs (line 113)
nextBackoff(ms, maxBackoffMs) == Min(ms * 2, maxBackoffMs)

\* the for loop reaches its condition with this attempt number: fn is called,
\* or the loop ends and lastError is thrown
loopTest(n) ==
  IF n <= options'.maxRetries
  THEN retryPc' = "calling" /\ fnCalls' = fnCalls + 1
  ELSE retryPc' = "thrown" /\ fnCalls' = fnCalls

\* RetryHelper.withRetry(fn, {maxRetries, initialBackoffMs, maxBackoffMs})
WithRetry(maxRetries, initialBackoffMs, maxBackoffMs) ==
  /\ retryPc = "idle"
  /\ options' = [maxRetries |-> maxRetries, initialBackoffMs |-> initialBackoffMs,
                 maxBackoffMs |-> maxBackoffMs]
  /\ lastError' = null
  /\ backoffMs' = initialBackoffMs
  /\ attempt' = 0
  /\ loopTest(0)
  /\ UNCHANGED <<waits, verdicts, clientVars, goVars>>

\* fn() resolves: return await fn()
FnResolve ==
  /\ retryPc = "calling"
  /\ retryPc' = "returned"
  /\ UNCHANGED <<options, attempt, backoffMs, lastError, fnCalls, waits, verdicts,
                 clientVars, goVars>>

\* fn() rejects with err: the catch block up to sleep(backoffMs)
FnReject(err) ==
  /\ retryPc = "calling"
  /\ lastError' = err
  /\ LET retry == matchesRetryable(err) /\ attempt # options.maxRetries IN
       /\ retryPc' = IF retry THEN "sleeping" ELSE "thrown"
       /\ waits' = IF retry THEN Append(waits, backoffMs) ELSE waits
       /\ verdicts' = Append(verdicts,
                         [isRetryable |-> isRetryable(err.errorClass),
                          IsRetryable |-> IsRetryable(err.errorClass),
                          retried |-> retry,
                          last |-> attempt = options.maxRetries])
  /\ UNCHANGED <<options, attempt, backoffMs, fnCalls, clientVars, goVars>>

\* sleep(backoffMs) is over: the new backoffMs, attempt++ and the loop test
SleepDone ==
  /\ retryPc = "sleeping"
  /\ backoffMs' = nextBackoff(backoffMs, options.maxBackoffMs)
  /\ attempt' = attempt + 1
  /\ UNCHANGED options
  /\ loopTest(attempt + 1)
  /\ UNCHANGED <<lastError, waits, verdicts, clientVars, goVars>>

\* ---------------------------------------------------------- the Go client
MaxGoroutines == 2   \* goroutines calling ExecuteHTTP on one Go client
MaxGoCalls == 3      \* calls of nextRequestID in all
Goroutines == 1..MaxGoroutines

\* nextRequestID(): atomic.AddUint64(&c.requestIDSeq, 1) returns the new value.
\* (uint64 arithmetic; the counter cannot wrap within MaxGoCalls calls)
nextRequestID_stale(seq) == seq
nextRequestID(seq) == seq + 1

\* ExecuteHTTP in goroutine g takes its request ID (one atomic step)
GoNextRequestID(g) ==
  /\ Len(goIssued) < MaxGoCalls
  /\ requestIDSeq' = nextRequestID(requestIDSeq)
  /\ goIssued' = Append(goIssued, <<g, nextRequestID(requestIDSeq)>>)
  /\ UNCHANGED <<clientVars, retryVars, goConnVars>>

\* ------------------------------------------------------- specifications
\* the state after construction, the configuration apart
ClientInit ==
  /\ socket = NoSocket
  /\ sockets = [s \in Sockets |-> "none"]
  /\ connTimers = {}
  /\ connPromise = [s \in Sockets |-> "none"]
  /\ connOwner = [s \in Sockets |-> NoCall]
  /\ endCbs = {}
  /\ requestIdSeq = DateNow
  /\ pendingRequests = EmptyMap
  /\ timers = {}
  /\ receiveBuffer = << >>
  /\ calls = [c \in Calls |-> NoCallRec]
  /\ crashed = FALSE
  /\ settles = [c \in Calls |-> 0]
  /\ removals = [c \in Calls |-> 0]
  /\ discarded = {}
  /\ failAlls = [c \in Calls |-> 0]
  /\ dispatched = << >>
  /\ peak = 0
  /\ anomalies = << >>
  /\ oversized = -1
  /\ wire = << >>
  /\ sent = << >>
  /\ transport = [s \in Sockets |-> "none"]
  /\ now = 0
  /\ outbound = [s \in Sockets |-> << >>]
  /\ armed = [c \in Calls |-> 0]
  /\ redundant = << >>
  /\ calledAt = [c \in Calls |-> -1]
  /\ retryPc = "idle"
  /\ options = NoOptions
  /\ attempt = 0
  /\ backoffMs = 0
  /\ lastError = null
  /\ fnCalls = 0
  /\ waits = << >>
  /\ verdicts = << >>
  /\ requestIDSeq = UnixNano
  /\ goIssued = << >>
  /\ platform = ""
  /\ envUseTCP = FALSE
  /\ newClient = "none"
  /\ dials = << >>
  /\ conn = "nil"
  /\ goCalls = [g \in 1..MaxGoroutines |-> [pc |-> "idle", requestID |-> 0]]
  /\ connOut = << >>
  /\ connIn = << >>
  /\ answered = {}
  /\ returns = << >>
  /\ allocs = << >>

\* a client constructed with the default configuration (useTcp false)
Init == ClientInit /\ useTcp = FALSE /\ config = constructor(NoConfig)

ConnsBound == Cardinality({s \in Sockets : sockets'[s] # "none"}) <= MaxConns

\* the client's life: calls, connections, timers and whole-frame responses
Next ==
  \/ Connect /\ ConnsBound
  \/ Close
  \/ \E c \in Calls : ExecuteHTTP(c) /\ ConnsBound
  \/ \E c \in Calls : WriteDone(c)
  \/ \E c \in Calls : WriteFail(c)
  \/ \E c \in Calls : Timeout(c)
  \/ \E s \in Sockets : ConnectOk(s)
  \/ \E s \in Sockets : ConnectTimeout(s)
  \/ \E s \in Sockets : SocketError(s)
  \/ \E s \in Sockets : SocketClose(s)
  \/ \E s \in Sockets : SocketFinish(s)
  \/ \E s \in Sockets, f \in WholeFrames : SocketData(s, f)

Spec == Init /\ [][Next]_vars

\* one connection that stays up, and the byte stream of the runtime cut
\* into arbitrary chunks
NextStream ==
  \/ \E c \in Calls : ExecuteHTTP(c)
  \/ \E c \in Calls : WriteDone(c)
  \/ \E s \in Sockets : ConnectOk(s)
  \/ \E f \in StreamFrames : RuntimeWrite(f)
  \/ \E k \in 1..(MaxFrames * 8) : Deliver(k)

SpecStream == Init /\ [][NextStream]_vars

\* connections that are opened and closed without failure: connect(),
\* close(), executeHTTP() up to the registration of the request, and the
\* 'connect', 'finish' and 'close' events
NextConn ==
  \/ Connect
  \/ Close
  \/ \E c \in Calls : ExecuteHTTP(c)
  \/ \E c \in Calls : WriteDone(c)
  \/ \E c \in Calls : WriteFail(c)
  \/ \E s \in Sockets : ConnectOk(s)
  \/ \E s \in Sockets : SocketClose(s)
  \/ \E s \in Sockets : SocketFinish(s)

SpecConn == Init /\ [][NextConn]_vars

\* requests on a connection and the runtime's answers to them, successes and
\* failures, until the runtime closes the connection
NextResp ==
  \/ \E c \in Calls : ExecuteHTTP(c) /\ ConnsBound
  \/ \E c \in Calls : WriteDone(c)
  \/ \E c \in Calls : Timeout(c)
  \/ \E s \in Sockets : ConnectOk(s)
  \/ \E s \in Sockets : SocketClose(s)
  \/ \E s \in Sockets, f \in ResponseFrames : SocketData(s, f)

SpecResp == Init /\ [][NextResp]_vars

\* requests answered with successes of each JSON payload, more than once too,
\* after their deadline or after the runtime closed the connection
NextPayload ==
  \/ \E c \in Calls : ExecuteHTTP(c) /\ ConnsBound
  \/ \E c \in Calls : WriteDone(c)
  \/ \E c \in Calls : Timeout(c)
  \/ \E s \in Sockets : ConnectOk(s)
  \/ \E s \in Sockets : SocketClose(s)
  \/ \E s \in Sockets, f \in PayloadFrames : SocketData(s, f)

SpecPayload == Init /\ [][NextPayload]_vars

\* one invocation of RetryHelper.withRetry with each choice of options, fn
\* settling each time it is called
NextRetry ==
  \/ \E m \in 0..MaxRetries, i, b \in 1..MaxBackoff : WithRetry(m, i, b)
  \/ FnResolve
  \/ \E err \in FnErrors : FnReject(err)
  \/ SleepDone

SpecRetry == Init /\ [][NextRetry]_vars

\* concurrent calls taking their request IDs: executeHTTP calls on the
\* TypeScript client up to their registration, goroutines on the Go client
NextIds ==
  \/ \E c \in Calls : ExecuteHTTP(c)
  \/ \E c \in Calls : WriteDone(c)
  \/ \E c \in Calls : Timeout(c)
  \/ \E s \in Sockets : ConnectOk(s)
  \/ \E g \in Goroutines : GoNextRequestID(g)

SpecIds == Init /\ [][NextIds]_vars

\* a client constructed with either configuration (TCP forced or not), and
\* its connection attempts: they succeed, fail with 'error' or time out
InitConfig == ClientInit /\ useTcp \in BOOLEAN /\ config = constructor(NoConfig)

NextConfig ==
  \/ Connect
  \/ Close
  \/ \E s \in Sockets : ConnectOk(s)
  \/ \E s \in Sockets : ConnectTimeout(s)
  \/ \E s \in Sockets : SocketError(s)
  \/ \E s \in Sockets : SocketClose(s)
  \/ \E s \in Sockets : SocketFinish(s)

SpecConfig == InitConfig /\ [][NextConfig]_vars

\* the application calls connect() and close() in any state of the client,
\* while requests are issued and connections are closed by either side
NextApi ==
  \/ Connect /\ ConnsBound
  \/ ConnectAgain
  \/ Close
  \/ CloseAgain
  \/ CloseIdle
  \/ \E c \in Calls : ExecuteHTTP(c) /\ ConnsBound
  \/ \E c \in Calls : WriteDone(c)
  \/ \E s \in Sockets : ConnectOk(s)
  \/ \E s \in Sockets : SocketClose(s)
  \/ \E s \in Sockets : SocketFinish(s)

SpecApi == Init /\ [][NextApi]_vars

\* a millisecond passes
Tick ==
  /\ now < MaxNow
  /\ now' = now + 1
  /\ UNCHANGED <<socket, sockets, connTimers, connPromise, connOwner, endCbs,
                 requestIdSeq, pendingRequests, timers, receiveBuffer, calls, crashed,
                 settles, removals, discarded, failAlls, dispatched, peak, anomalies,
                 oversized, wire, sent, useTcp, config, calledAt, outbound, armed,
                 redundant, transport, retryVars, goVars>>

\* the options given to the constructor: none, all of them, empty ones, and
\* a workspace only
Configs ==
  {NoConfig,
   [tenantId |-> "acme", workspaceId |-> "ws", timeoutMs |-> 5],
   [tenantId |-> "", workspaceId |-> "", timeoutMs |-> 0],
   [tenantId |-> Undefined, workspaceId |-> "ws", timeoutMs |-> UndefinedMs]}

\* the requests passed to executeHTTP: no override, every override, empty
\* overrides, a workspace and a timeout only, a tenant and a trace only
Requests ==
  {NoOverrides,
   [tenantId |-> "corp", workspaceId |-> "ws2", traceId |-> "trace", timeoutMs |-> 7],
   [tenantId |-> "", workspaceId |-> "", traceId |-> "", timeoutMs |-> 0],
   [tenantId |-> Undefined, workspaceId |-> "ws2", traceId |-> Undefined, timeoutMs |-> 7],
   [tenantId |-> "corp", workspaceId |-> Undefined, traceId |-> "trace",
    timeoutMs |-> UndefinedMs]}

\* a client constructed with each configuration
InitEnvelope ==
  ClientInit /\ useTcp = FALSE /\ \E cfg \in Configs : config = constructor(cfg)

\* requests with and without overrides on clients of each configuration, on a
\* connection that stays up, while time passes
NextEnvelope ==
  \/ \E c \in Calls, request \in Requests : ExecuteHTTPReq(c, request)
  \/ \E c \in Calls : WriteDone(c)
  \/ \E s \in Sockets : ConnectOk(s)
  \/ Tick

SpecEnvelope == InitEnvelope /\ [][NextEnvelope]_vars

\* Timers fire, write callbacks are called, a connection attempt ends (in
\* 'connect' or in 'error') and a destroyed socket emits 'close'.  Nothing
\* obliges the runtime to answer or to close its side, nor the application to
\* issue calls.
Fairness ==
  /\ \A c \in Calls : WF_vars(Timeout(c))
  /\ \A c \in Calls : WF_vars(WriteDone(c))
  /\ \A c \in Calls : WF_vars(WriteFail(c))
  /\ \A s \in Sockets : WF_vars(ConnectTimeout(s))
  /\ \A s \in Sockets : WF_vars(sockets[s] = "destroyed" /\ SocketClose(s))
  /\ \A s \in Sockets : WF_vars(/\ sockets[s] \in {"connecting", "endedConnecting"}
                                 /\ (ConnectOk(s) \/ SocketError(s)))

FairSpec == Init /\ [][Next]_vars /\ Fairness

\* ------------------------------------------------------------ properties
InTable(c) == \E r \in DOMAIN pendingRequests : pendingRequests[r] = c
Done(c) == calls[c].pc = "done"

\* C1: a registered request is settled exactly once and its entry removed
\* exactly once: resolve/reject is never invoked twice for a call, an entry is
\* never removed twice, a call is in the table exactly while its promise is
\* pending after registration, and no two entries share a requestId.
C1_ExactlyOnce ==
  /\ \A c \in Calls :
       /\ settles[c] <= 1
       /\ removals[c] <= 1
       /\ calls[c].pc = "waiting" =>
            /\ settles[c] = 0 /\ removals[c] = 0
            /\ calls[c].requestId \in DOMAIN pendingRequests
            /\ pendingRequests[calls[c].requestId] = c
       /\ InTable(c) => calls[c].pc = "waiting"
       /\ removals[c] = 1 => Done(c) /\ settles[c] = 1
  /\ \A c, d \in Calls :
       (c # d /\ calls[c].pc = "waiting" /\ calls[d].pc = "waiting")
         => calls[c].requestId # calls[d].requestId

\* one call answered by the runtime, one failed by the connection, each once
C1_Witness ==
  \E c, d \in Calls :
    /\ calls[c].outcome.kind = "resolved" /\ removals[c] = 1 /\ settles[c] = 1
    /\ calls[d].outcome.errorClass = Transient /\ removals[d] = 1 /\ settles[d] = 1

\* C2: a response settles only the call issued with its requestId: whatever a
\* call was resolved or rejected with carries that call's own requestId.
C2_Correlation ==
  \A c \in Calls :
    calls[c].outcome.kind = "resolved" \/ calls[c].outcome.errorClass # NoClass
      => calls[c].outcome.requestId = calls[c].requestId

\* two calls pending at once, answered in the reverse of the issue order
C2_Witness ==
  /\ Len(dispatched) = 2
  /\ dispatched[1][2] > dispatched[2][2]
  /\ peak = 2
  /\ \A c \in 1..2 : calls[c].outcome.kind = "resolved" /\ failAlls[c] = 0

\* a step in which a socket emitted 'error' (it went from live to destroyed and
\* no connect() promise was rejected, as the connection timer would have done)
ErrorStep ==
  /\ \E s \in Sockets : sockets[s] \in Live /\ sockets'[s] = "destroyed"
  /\ connPromise' = connPromise
\* a step in which a socket emitted 'close'
CloseStep ==
  \E s \in Sockets : sockets[s] # "closed" /\ sockets'[s] = "closed"

\* C4: a socket error or close rejects every pending request with a Transient
\* ConnectorException carrying its own requestId, cancels its timer and leaves
\* the table empty; nothing that happens later (a late response included)
\* changes a settled call or invokes its resolve/reject again.
C4_FailAll ==
  [][ /\ (ErrorStep \/ CloseStep) =>
           /\ pendingRequests' = EmptyMap
           /\ \A r \in DOMAIN pendingRequests :
                LET c == pendingRequests[r] IN
                  /\ calls'[c].pc = "done"
                  /\ calls'[c].outcome.kind = "rejected"
                  /\ calls'[c].outcome.errorClass = Transient
                  /\ calls'[c].outcome.requestId = r
                  /\ c \notin timers'
      /\ \A c \in Calls :
           Done(c) => calls'[c] = calls[c] /\ settles'[c] = settles[c]
    ]_vars

\* both pending requests failed by the connection, then a response for one of
\* them arrived and was dropped
C4_Witness ==
  /\ \A c \in 1..2 : calls[c].outcome.errorClass = Transient /\ failAlls[c] = 1
  /\ \E c \in 1..2 : calls[c].requestId \in discarded
  /\ pendingRequests = EmptyMap

\* C5: response against deadline timer.  A response that finds the entry
\* cancels the timer and removes the entry; a timer that fires rejects with
\* class Timeout and removes the entry; whichever comes second reaches nobody.
C5_TimeoutExclusive ==
  [][ \A c \in Calls :
        /\ (calls[c].pc = "waiting" /\ calls'[c].pc = "done") =>
             /\ c \notin timers'
             /\ calls[c].requestId \notin DOMAIN pendingRequests'
             /\ settles'[c] = 1
        /\ (calls[c].pc = "waiting" /\ c \in timers /\ c \notin timers'
            /\ calls[c].requestId \in DOMAIN pendingRequests
            /\ failAlls'[c] = failAlls[c] /\ Len(dispatched') = Len(dispatched)) =>
             /\ calls'[c].outcome.errorClass = TimeoutClass
             /\ calls'[c].outcome.requestId = calls[c].requestId
        /\ (Done(c) /\ calls[c].outcome.errorClass = TimeoutClass) =>
             calls'[c] = calls[c] /\ settles'[c] = settles[c]
        /\ (Done(c) /\ calls[c].outcome.kind = "resolved") =>
             calls'[c] = calls[c] /\ settles'[c] = settles[c] /\ c \notin timers'
    ]_vars

\* the timer fired first and the response that came later was discarded
C5_Witness ==
  \E c \in Calls :
    /\ calls[c].outcome.errorClass = TimeoutClass
    /\ calls[c].requestId \in discarded
    /\ settles[c] = 1 /\ removals[c] = 1
    /\ calls[c].requestId \notin DOMAIN pendingRequests

\* C3: every executeHTTP call that was issued eventually settles.
C3_EventuallySettles ==
  \A c \in Calls : (calls[c].pc # "idle") ~> Done(c)

\* the declared length of a frame as handleData reads it
Declared(f) == readUInt32BE(f.hdr)
\* the frames of a sequence that lie entirely within its first n bytes
RECURSIVE CompleteFrames(_, _)
CompleteFrames(frames, n) ==
  IF frames = << >> \/ n < Len(EncodeFrame(Head(frames))) THEN << >>
  ELSE <<Head(frames).body>>
         \o CompleteFrames(Tail(frames), n - Len(EncodeFrame(Head(frames))))
RECURSIVE StreamLen(_)
StreamLen(frames) ==
  IF frames = << >> THEN 0 ELSE Len(EncodeFrame(Head(frames))) + StreamLen(Tail(frames))
\* bytes of the stream the client has received
Delivered == StreamLen(sent) - Len(wire)
AllValid ==
  \A i \in 1..Len(sent) :
    /\ Declared(sent[i]) >= 1 /\ Declared(sent[i]) <= MAX_PAYLOAD_SIZE
    /\ Declared(sent[i]) = Len(sent[i].body)

\* C6: once the receive buffer starts with a declared length above
\* MAX_PAYLOAD_SIZE the connection is aborted (the socket is shut down and
\* this.socket cleared) and the receive buffer no longer grows.
C6_OversizedAborts ==
  oversized # -1 =>
    /\ socket = NoSocket
    /\ \A s \in Sockets : sockets[s] \notin Live
    /\ Len(receiveBuffer) <= oversized

\* C7: while the runtime has written valid frames only, the frames handed to
\* processFrame are exactly the frames that have arrived completely, in wire
\* order, each with its type byte and payload, and no handler has thrown,
\* whatever the chunk boundaries were.
C7_Reassembly ==
  AllValid => /\ dispatched = CompleteFrames(sent, Delivered)
              /\ ~crashed
              /\ Len(receiveBuffer) = Delivered - StreamLen(SubSeq(sent, 1, Len(dispatched)))

\* three valid frames, one of them with nothing after the type byte, all
\* delivered and dispatched
C7_Witness ==
  /\ AllValid /\ Len(sent) >= 3 /\ wire = << >>
  /\ Len(dispatched) = Len(sent)
  /\ \E i, j \in 1..Len(dispatched) : Len(dispatched[i]) = 1 /\ Len(dispatched[j]) > 1

\* C8: no pending entry outlives its connection: whenever this.socket has
\* been cleared, the pending table is empty.
C8_NoEntryOutlivesConnection ==
  socket = NoSocket => pendingRequests = EmptyMap

\* C9: at most one socket carrying the client's handlers is open at a time.
C9_OneConnection ==
  Cardinality({s \in Sockets : sockets[s] = "open"}) <= 1

\* C10: connect() rejects whenever no connection is established: once the
\* attempt on a socket is over (the socket is destroyed or closed and its
\* connection timer is no longer armed) the promise is not pending.
C10_ConnectRejects ==
  \A s \in Sockets :
    (sockets[s] \in {"destroyed", "closed"} /\ s \notin connTimers)
      => connPromise[s] # "pending"

\* C11: when TCP is forced every connection attempt is a TCP attempt; when it
\* is not, connect() reports the failure of a domain-socket attempt only after
\* a TCP attempt has been made.
C11_TcpFallback ==
  /\ useTcp => \A s \in Sockets : transport[s] \in {"none", "tcp"}
  /\ ~useTcp => \A s \in Sockets :
                  (transport[s] = "unix" /\ connPromise[s] = "rejected")
                    => \E t \in Sockets : transport[t] = "tcp"

\* C12: once a connection of the client was established and has gone, only an
\* explicit connect() opens a new socket: no socket created after an
\* established connection is created by an executeHTTP call.
C12_NoAutoReconnect ==
  \A s \in Sockets :
    connOwner[s] # NoCall => ~ \E t \in Sockets : t < s /\ connPromise[t] = "resolved"

\* C13: every failure of an executeHTTP call is a ConnectorException that
\* carries the call's requestId and a class of the ErrorClass enum.
C13_FailuresClassified ==
  \A c \in Calls :
    calls[c].outcome.kind = "rejected" =>
      /\ calls[c].outcome.errorClass \in ErrorClass
      /\ calls[c].outcome.requestId # NoId
      /\ calls[c].outcome.requestId = calls[c].requestId

\* the frames handed to processFrame in this step
NewFrames == {dispatched'[i] : i \in (Len(dispatched) + 1)..Len(dispatched')}
\* a frame too short to hold the message type
Malformed(frameData) == Len(frameData) < MESSAGE_TYPE_SIZE
\* a step that met a protocol-level failure: a malformed or an oversized frame,
\* a socket error or a close
ProtocolFailureStep ==
  \/ \E f \in NewFrames : Malformed(f)
  \/ oversized = -1 /\ oversized' # -1
  \/ ErrorStep
  \/ CloseStep
\* call c was answered by a response frame in this step
Answered(c) ==
  \E f \in NewFrames : ~Malformed(f) /\ f[1] = ExecuteResponse
                         /\ fbField(slice(f, MESSAGE_TYPE_SIZE, Len(f)), 1) = calls[c].requestId
\* call c was rejected in this step because its response payload could not be decoded
DecodeFailure(c) ==
  /\ calls[c].pc = "waiting" /\ calls'[c].pc = "done"
  /\ calls'[c].outcome.msg \in {"Empty response payload", "Failed to parse response"}

\* C14: a protocol-level failure rejects every call that was pending (and not
\* answered in the same step) with class Transient; an undecodable payload of
\* one response rejects that call with class Permanent, and a step that does
\* nothing else leaves every other call as it was.
C14_Propagation ==
  [][ /\ ProtocolFailureStep =>
           \A c \in Calls : calls[c].pc = "waiting" =>
             /\ calls'[c].pc = "done"
             /\ Answered(c) \/ calls'[c].outcome.errorClass = Transient
      /\ \A c \in Calls : DecodeFailure(c) =>
           /\ calls'[c].outcome.errorClass = Permanent
           /\ calls'[c].outcome.requestId = calls[c].requestId
           /\ Cardinality(NewFrames) = 1 /\ ~ProtocolFailureStep =>
                \A d \in Calls \ {c} : calls'[d] = calls[d] /\ (d \in timers' <=> d \in timers)
    ]_vars

\* the table of a response frame
TableOf(f) == slice(f, MESSAGE_TYPE_SIZE, Len(f))
\* this step handed processFrame exactly one frame, a response to the waiting
\* call c reporting a class other than Success
ErrorAnswer(c, f) ==
  /\ calls[c].pc = "waiting"
  /\ NewFrames = {f} /\ Len(dispatched') = Len(dispatched) + 1
  /\ Answered(c)
  /\ fbField(TableOf(f), 2) # Success
\* the errorMessage the runtime put in the response, if it put one
Reported(f) == fbField(TableOf(f), 4) # MessageAbsent
ReportedMessage(f) == ErrorMessages[fbField(TableOf(f), 4)]

\* C15 as stated: an error response rejects the call with its requestId, the
\* reported class and the reported errorMessage verbatim.
C15_ErrorVerbatim ==
  [][ \A c \in Calls : \A f \in NewFrames : ErrorAnswer(c, f) =>
        /\ calls'[c].pc = "done" /\ calls'[c].outcome.kind = "rejected"
        /\ calls'[c].outcome.requestId = calls[c].requestId
        /\ calls'[c].outcome.errorClass = fbField(TableOf(f), 2)
        /\ Reported(f) => calls'[c].outcome.msg = ReportedMessage(f)
    ]_vars

\* C15 amended: as above, with the message verbatim when the reported
\* errorMessage is not empty, and 'Unknown error' when it is empty or absent;
\* a RateLimited rejection is retryable.
C15_ErrorVerbatimNonEmpty ==
  [][ \A c \in Calls : \A f \in NewFrames : ErrorAnswer(c, f) =>
        /\ calls'[c].pc = "done" /\ calls'[c].outcome.kind = "rejected"
        /\ calls'[c].outcome.requestId = calls[c].requestId
        /\ calls'[c].outcome.errorClass = fbField(TableOf(f), 2)
        /\ (Reported(f) /\ ReportedMessage(f) # "")
             => calls'[c].outcome.msg = ReportedMessage(f)
        /\ (~Reported(f) \/ ReportedMessage(f) = "")
             => calls'[c].outcome.msg = "Unknown error"
        /\ fbField(TableOf(f), 2) = RateLimited
             => isRetryable(calls'[c].outcome.errorClass)
    ]_vars

\* one call rejected as RateLimited with the runtime's message, another with
\* the default message
C15_Witness ==
  \E c, d \in Calls :
    /\ calls[c].outcome = ConnectorException("quota exceeded", RateLimited, calls[c].requestId)
    /\ calls[d].outcome = ConnectorException("Unknown error", RateLimited, calls[d].requestId)
    /\ failAlls[c] = 0 /\ failAlls[d] = 0

\* C16: isRetryable is the lookup "class is Transient, RateLimited or
\* Timeout", for every class of the enum and for every error an attempt
\* failed with, and the Go IsRetryable gives the same verdict.
C16_IsRetryableLookup ==
  /\ \A e \in ErrorClass :
       /\ isRetryable(e) <=> e \in {Transient, RateLimited, TimeoutClass}
       /\ IsRetryable(e) <=> isRetryable(e)
  /\ \A i \in 1..Len(verdicts) : verdicts[i].IsRetryable = verdicts[i].isRetryable
  /\ lastError # null =>
       verdicts[Len(verdicts)].isRetryable
         = (lastError.errorClass \in {Transient, RateLimited, TimeoutClass})

\* a retryable error (class Timeout) followed by one that is not
\* (class InvalidRequest), each classified
C16_Witness ==
  /\ Len(verdicts) = 3
  /\ verdicts[1].isRetryable /\ verdicts[2].isRetryable /\ ~verdicts[3].isRetryable
  /\ lastError = BadUrl

\* C17: withRetry retries a failed attempt (one that is not the last allowed)
\* if and only if the error's class is retryable per isRetryable.
C17_RetryHonoursClass ==
  \A i \in 1..Len(verdicts) :
    ~verdicts[i].last => (verdicts[i].retried <=> verdicts[i].isRetryable)

\* C18: fn is called at most maxRetries + 1 times; a successful attempt is the
\* last one and every attempt before it failed; when withRetry throws after
\* attempts that all failed with retryable errors, it made exactly
\* maxRetries + 1 attempts and throws the last error.
C18_AttemptsBounded ==
  /\ fnCalls <= options.maxRetries + 1
  /\ retryPc = "returned" => fnCalls = Len(verdicts) + 1
  /\ (retryPc = "thrown" /\ \A i \in 1..Len(verdicts) : verdicts[i].isRetryable) =>
       /\ fnCalls = options.maxRetries + 1
       /\ Len(verdicts) = fnCalls
       /\ lastError # null

\* C19: the k-th wait is min(initialBackoffMs * 2^(k-1), maxBackoffMs); the
\* waits never decrease and none exceeds maxBackoffMs.
C19_BackoffCapped ==
  \A k \in 1..Len(waits) :
    /\ waits[k] = Min(options.initialBackoffMs * 2^(k - 1), options.maxBackoffMs)
    /\ waits[k] <= options.maxBackoffMs
    /\ k > 1 => waits[k - 1] <= waits[k]

\* C20: request IDs of one client are unique and strictly increasing in the
\* order they are issued, and a newly issued ID is not the ID of a pending
\* request: whenever a TypeScript call obtains its requestId it is greater
\* than every ID issued before and is not a key of the pending table, and
\* whenever a goroutine obtains an ID from the Go client it is greater than
\* every ID that client returned before.
C20_UniqueIds ==
  [][ /\ \A c \in Calls : calls'[c].requestId # calls[c].requestId =>
           /\ calls[c].requestId = NoId
           /\ \A d \in Calls \ {c} :
                /\ calls'[d].requestId # calls'[c].requestId
                /\ calls[d].requestId # NoId => calls[d].requestId < calls'[c].requestId
           /\ calls'[c].requestId \notin DOMAIN pendingRequests
      /\ goIssued' # goIssued =>
           /\ Len(goIssued') = Len(goIssued) + 1
           /\ \A i \in 1..Len(goIssued) :
                /\ goIssued'[i] = goIssued[i]
                /\ goIssued[i][2] < goIssued'[Len(goIssued')][2]
    ]_vars

\* two TypeScript calls pending at once, the call issued second holding the
\* smaller ID, and two goroutines that took IDs of the Go client in turn
C20_Witness ==
  /\ calls[1].pc = "waiting" /\ calls[2].pc = "waiting"
  /\ calls[2].requestId < calls[1].requestId
  /\ Len(goIssued) = 3
  /\ goIssued[1][1] # goIssued[2][1] /\ goIssued[2][1] # goIssued[3][1]

\* the frames a reader finds in a byte stream, cutting it at the declared
\* lengths; bytes that do not make up a whole frame are reported as <<-1>>
RECURSIVE WireFrames(_)
WireFrames(bytes) ==
  IF bytes = << >> THEN << >>
  ELSE IF Len(bytes) < FRAME_LENGTH_SIZE
          \/ Len(bytes) < FRAME_LENGTH_SIZE + readUInt32BE(bytes)
       THEN << <<-1>> >>
       ELSE LET total == FRAME_LENGTH_SIZE + readUInt32BE(bytes)
            IN <<slice(bytes, FRAME_LENGTH_SIZE, total)>>
                 \o WireFrames(slice(bytes, total, Len(bytes)))

\* C21: the bytes written to a socket are a sequence of whole frames
\* [length][type][payload] with length = 1 + len(payload), one per write, in
\* the order the writes were issued (the order of the requestIds), and a call
\* whose write is in flight has its frame on the wire of its socket.
C21_FramesContiguous ==
  /\ \A s \in Sockets :
       LET frames == WireFrames(outbound[s]) IN
         /\ \A i \in 1..Len(frames) :
              /\ frames[i] # <<-1>>
              /\ frames[i][1] = ExecuteRequest
              /\ Len(frames[i]) = MESSAGE_TYPE_SIZE + 5
              /\ \E c \in Calls : calls[c].requestId = frames[i][2]
         /\ \A i, j \in 1..Len(frames) : i < j => frames[i][2] < frames[j][2]
  /\ \A c \in Calls :
       (calls[c].pc = "awaitWrite" /\ calls[c].writeOk) =>
         \E i \in 1..Len(WireFrames(outbound[calls[c].sock])) :
           WireFrames(outbound[calls[c].sock])[i][2] = calls[c].requestId

\* two calls whose writes are in flight on the same socket at the same time
C21_Witness ==
  \E s \in Sockets :
    /\ Len(WireFrames(outbound[s])) = 2
    /\ \A c \in 1..2 : calls[c].pc = "awaitWrite" /\ calls[c].sock = s /\ calls[c].writeOk

\* the redundant call made in this step, or "none"
RedundantCall ==
  IF Len(redundant') = Len(redundant) + 1 THEN redundant'[Len(redundant')] ELSE "none"

\* C22: close() is idempotent.  A close() on a client without a socket (never
\* connected, or closed) changes nothing at all; a close() that follows another
\* close() settles no call and rejects no request, and no request is ever
\* failed by the connection more than once.
C22_CloseIdempotent ==
  [][ /\ RedundantCall = "closeIdle" => UNCHANGED untouched
      /\ RedundantCall \in {"closeIdle", "closeAgain"} =>
           /\ UNCHANGED <<calls, settles, failAlls, removals, pendingRequests, timers,
                          crashed>>
           /\ ~crashed'
      /\ \A c \in Calls : failAlls'[c] <= 1 /\ settles'[c] <= 1
    ]_vars

\* close() was called a second time before the first had finished, a request
\* was failed by the close of the connection, and close() was called again on
\* the closed client
C22_Witness ==
  /\ redundant = <<"closeAgain", "closeIdle">>
  /\ \E c \in Calls : failAlls[c] = 1 /\ calls[c].outcome.errorClass = Transient
  /\ socket = NoSocket

\* C23: connect() on a connected client opens no socket, adds no handler (no
\* socket, timer or promise appears), leaves the pending table and the receive
\* buffer as they were, and returns.
C23_ConnectNoop ==
  [][ (RedundantCall = "connect" /\ sockets[socket] = "open") =>
        /\ UNCHANGED <<socket, sockets, connTimers, connPromise, connOwner, transport>>
        /\ UNCHANGED <<pendingRequests, timers, receiveBuffer, calls, crashed>>
    ]_vars

\* connect() was called on the open connection with two requests pending, and
\* the client still has created one socket only
C23_Witness ==
  /\ redundant # << >> /\ redundant[Len(redundant)] = "connect"
  /\ socket # NoSocket /\ sockets[socket] = "open"
  /\ Cardinality(DOMAIN pendingRequests) = 2
  /\ Cardinality(Created) = 1

\* this step handed processFrame exactly one frame, a response whose requestId
\* had no entry in the pending table
UnknownResponse ==
  /\ Len(dispatched') = Len(dispatched) + 1
  /\ \E f \in NewFrames :
       /\ ~Malformed(f) /\ f[1] = ExecuteResponse
       /\ fbField(TableOf(f), 1) \notin DOMAIN pendingRequests

\* C24: a response whose requestId has no entry in the pending table throws
\* nothing, settles no call and leaves the table and every armed deadline
\* timer as they were.
C24_UnknownIdDiscarded ==
  [][ UnknownResponse =>
        /\ ~crashed'
        /\ UNCHANGED <<calls, settles, removals, failAlls, pendingRequests, timers>>
    ]_vars

\* the first call was answered, the same response came a second time while the
\* second call was waiting, and the second call is still waiting with its timer
C24_Witness ==
  /\ calls[1].pc = "done" /\ calls[1].outcome.kind = "resolved"
  /\ calls[1].requestId \in discarded
  /\ Len(dispatched) = 2 /\ dispatched[1] = dispatched[2]
  /\ calls[2].pc = "waiting" /\ 2 \in timers
  /\ pendingRequests = MapSet(EmptyMap, calls[2].requestId, 2)

\* an option that was given, and given a value
Given(str) == str # Undefined /\ str # ""
\* the fields of a request frame on the wire
FrameId(f) == f[2]
FrameTenant(f) == f[3]
FrameWorkspace(f) == f[4]
FrameTrace(f) == f[5]
FrameDeadline(f) == f[6]
\* the request frames written to socket s
RequestFrames(s) == {WireFrames(outbound[s])[i] : i \in 1..Len(WireFrames(outbound[s]))}
\* the frame of call c, whose write is in flight
FrameOf(c) ==
  CHOOSE f \in RequestFrames(calls[c].sock) : FrameId(f) = calls[c].requestId
Written(c) == calls[c].pc = "awaitWrite" /\ calls[c].writeOk

\* C25: in every request envelope the tenant is the per-call tenantId if one
\* was given and the client's otherwise, which is 'default' when none was
\* configured, and is never empty; the workspace is the per-call workspaceId
\* if given, else the client's, and is left out when neither is set; the trace
\* is left out when not given; neither is ever encoded as an empty string.
C25_EnvelopeDefaults ==
  /\ \A cfg \in Configs :
       constructor(cfg).tenantId = IF Given(cfg.tenantId) THEN cfg.tenantId ELSE "default"
  /\ config.tenantId # ""
  /\ \A s \in Sockets : \A f \in RequestFrames(s) :
       /\ FrameTenant(f) \in 1..Len(Strings) /\ Strings[FrameTenant(f)] # ""
       /\ FrameWorkspace(f) # 0 => Strings[FrameWorkspace(f)] # ""
       /\ FrameTrace(f) # 0 => Strings[FrameTrace(f)] # ""
  /\ \A c \in Calls : Written(c) =>
       LET request == calls[c].request
           f == FrameOf(c) IN
         /\ Strings[FrameTenant(f)] =
              IF Given(request.tenantId) THEN request.tenantId ELSE config.tenantId
         /\ IF Given(request.workspaceId)
            THEN Strings[FrameWorkspace(f)] = request.workspaceId
            ELSE IF config.workspaceId # ""
            THEN Strings[FrameWorkspace(f)] = config.workspaceId
            ELSE FrameWorkspace(f) = 0
         /\ IF Given(request.traceId)
            THEN Strings[FrameTrace(f)] = request.traceId
            ELSE FrameTrace(f) = 0

\* a client with a workspace configured wrote a request with empty overrides,
\* which carries tenant 'default', the client's workspace and no trace, and
\* then a request that overrides tenant, workspace and trace
C25_Witness ==
  /\ config.workspaceId = "ws" /\ config.tenantId = "default"
  /\ Written(2) /\ calls[2].request.workspaceId = "ws2"
  /\ \E f, g \in RequestFrames(calls[2].sock) :
       /\ FrameId(f) < FrameId(g)
       /\ Strings[FrameTenant(f)] = "default" /\ Strings[FrameWorkspace(f)] = "ws"
       /\ FrameTrace(f) = 0
       /\ Strings[FrameTenant(g)] = "corp" /\ Strings[FrameWorkspace(g)] = "ws2"
       /\ Strings[FrameTrace(g)] = "trace"

\* the timeout the request of call c asks for: its own timeoutMs if it gave
\* one, otherwise the client's
Effective(request) ==
  IF request.timeoutMs # UndefinedMs /\ request.timeoutMs # 0
  THEN request.timeoutMs ELSE config.timeoutMs
\* call c builds its envelope and writes its frame in this step
EnvelopeStep(c) ==
  /\ calls[c].pc \in {"idle", "awaitConnect"}
  /\ calls'[c].pc = "awaitWrite" /\ calls'[c].writeOk
\* the frame written in this step to the socket of call c
NewFrame(c) ==
  LET frames == WireFrames(outbound'[calls'[c].sock]) IN frames[Len(frames)]
\* call c is registered in the pending table in this step
RegisterStep(c) == calls[c].pc = "awaitWrite" /\ calls'[c].pc = "waiting"
\* the deadline timer of a call is armed with the timeout its request asks for
TimerSized(c) ==
  RegisterStep(c) => c \in timers' /\ armed'[c] = Effective(calls[c].request)

\* C26 as stated: deadlineAtMs is the time at which executeHTTP was called plus
\* the effective timeout, and the deadline timer is armed with that timeout.
C26_DeadlineFromCall ==
  [][ \A c \in Calls :
        /\ EnvelopeStep(c) =>
             /\ FrameId(NewFrame(c)) = calls'[c].requestId
             /\ FrameDeadline(NewFrame(c)) = calledAt'[c] + Effective(calls'[c].request)
        /\ TimerSized(c)
    ]_vars

\* C26, amended: deadlineAtMs is the time at which the envelope is built (the
\* request takes its ID, after connect() when the call had to connect) plus
\* the effective timeout, and the deadline timer is armed with that timeout.
C26_DeadlineFromEnvelope ==
  [][ \A c \in Calls :
        /\ EnvelopeStep(c) =>
             /\ FrameId(NewFrame(c)) = calls'[c].requestId
             /\ FrameDeadline(NewFrame(c)) = now + Effective(calls'[c].request)
        /\ TimerSized(c)
    ]_vars

\* on a client with timeoutMs 5, the first call gave no timeout, connected
\* while the clock advanced and was registered with a timer of 5; the second
\* gave 7, was written at once with deadline now + 7 and registered with 7
C26_Witness ==
  /\ config.timeoutMs = 5
  /\ \A c \in 1..2 : calls[c].pc = "waiting"
  /\ armed[1] = 5 /\ armed[2] = 7
  /\ \E s \in Sockets : \E f, g \in RequestFrames(s) :
       /\ FrameId(f) = calls[1].requestId /\ FrameId(g) = calls[2].requestId
       /\ FrameDeadline(f) > calledAt[1] + 5
       /\ FrameDeadline(g) = calledAt[2] + 7

\* this step handed processFrame exactly one frame, a Success response to the
\* waiting call c whose payload is a JSON object with status_code
SuccessAnswer(c, f) ==
  /\ calls[c].pc = "waiting"
  /\ NewFrames = {f} /\ Len(dispatched') = Len(dispatched) + 1
  /\ Answered(c)
  /\ fbField(TableOf(f), 2) = Success
  /\ fbField(TableOf(f), 3) \in {PayloadJSON, PayloadNotFound}

\* what the runtime put in the payload of each response
StatusCodeSent(f) == IF fbField(TableOf(f), 3) = PayloadJSON THEN 200 ELSE 404
HeadersSent(f) ==
  IF fbField(TableOf(f), 3) = PayloadJSON THEN "{content-type: text/plain}" ELSE "{}"
BodyBytesSent(f) == IF fbField(TableOf(f), 3) = PayloadJSON THEN <<111, 107>> ELSE << >>

\* C27: a Success response to a pending request whose payload is a JSON object
\* with status_code, headers and body resolves the call with the request's ID,
\* statusCode = status_code, the bytes of body, the headers and errorClass
\* Success (status_code 200 and body 'ok' give statusCode 200 and body 'ok').
C27_SuccessMapping ==
  [][ \A c \in Calls : \A f \in NewFrames : SuccessAnswer(c, f) =>
        /\ calls'[c].pc = "done"
        /\ calls'[c].outcome.kind = "resolved"
        /\ calls'[c].outcome.requestId = calls[c].requestId
        /\ calls'[c].outcome.errorClass = Success
        /\ calls'[c].outcome.statusCode = StatusCodeSent(f)
        /\ calls'[c].outcome.headers = HeadersSent(f)
        /\ calls'[c].outcome.body = BodyBytesSent(f)
    ]_vars

\* one call resolved with 200 and 'ok', the other with 404 and an empty body
C27_Witness ==
  \E c, d \in Calls :
    /\ calls[c].outcome.kind = "resolved" /\ calls[c].outcome.statusCode = 200
    /\ calls[c].outcome.body = <<111, 107>>
    /\ calls[d].outcome.kind = "resolved" /\ calls[d].outcome.statusCode = 404
    /\ calls[d].outcome.body = << >> /\ calls[d].outcome.headers = "{}"

\* C28: a request is registered in the pending table, with its deadline timer
\* armed, before its frame is written: whenever the frame of a call that has
\* not settled is on the wire, the table holds the call's entry and its timer
\* is armed, so no response to it is dropped as unknown.
C28_RegisteredBeforeWrite ==
  \A s \in Sockets : \A f \in RequestFrames(s) : \A c \in Calls :
    (calls[c].requestId = FrameId(f) /\ calls[c].pc # "done") =>
      /\ FrameId(f) \in DOMAIN pendingRequests
      /\ pendingRequests[FrameId(f)] = c
      /\ c \in timers
      /\ FrameId(f) \notin discarded

\* a step in which handleData found an oversized frame length and reported it
\* to handleError
OversizedStep == oversized = -1 /\ oversized' # -1
\* the failure of this step was reported on socket s
ReportedOn(s) ==
  \/ sockets[s] \in Live /\ sockets'[s] = "destroyed" /\ connPromise' = connPromise
  \/ sockets[s] # "closed" /\ sockets'[s] = "closed"
  \/ OversizedStep /\ s = socket
\* the connection on socket s is closed after this step: the socket is closed,
\* or destroyed with its 'close' event (which clears this.socket) to follow
ConnectionClosedNow(s) ==
  /\ sockets'[s] \in {"destroyed", "closed"}
  /\ sockets'[s] = "closed" => socket' = NoSocket

\* C29: every report of a stream error (the 'error' event, an oversized frame
\* length) and every stream close fails each pending request once, leaves the
\* table empty and leaves the connection closed.
C29_FailAllThenClosed ==
  [][ (ErrorStep \/ CloseStep \/ OversizedStep) =>
        /\ pendingRequests' = EmptyMap
        /\ \A r \in DOMAIN pendingRequests :
             failAlls'[pendingRequests[r]] = 1 /\ settles'[pendingRequests[r]] = 1
        /\ \A s \in Sockets : ReportedOn(s) => ConnectionClosedNow(s)
    ]_vars

\* the frames handed to processFrame in this step, in order
NewDispatched == SubSeq(dispatched', Len(dispatched) + 1, Len(dispatched'))
\* a frame with a message type other than ExecuteResponse
NotAResponse(f) == ~Malformed(f) /\ f[1] # ExecuteResponse

\* C30: every received frame whose type is not ExecuteResponse is reported as
\* an anomaly; the loop goes on (while the runtime has sent valid frames only,
\* every frame that has arrived completely has been dispatched, those after an
\* anomaly included, and no handler has thrown); and a step that dispatched
\* nothing but such frames (and met no oversized length after them) leaves
\* calls, pending table and timers as they were.
C30_UnexpectedTypeReported ==
  [][ /\ anomalies' = anomalies \o SelectSeq(NewDispatched, NotAResponse)
      /\ AllValid' =>
           /\ Len(dispatched') = Len(CompleteFrames(sent', StreamLen(sent') - Len(wire')))
           /\ ~crashed'
      /\ ( /\ NewDispatched # << >>
           /\ \A i \in 1..Len(NewDispatched) : NotAResponse(NewDispatched[i])
           /\ ~OversizedStep ) =>
           UNCHANGED <<pendingRequests, timers, calls, settles, removals>>
    ]_vars

\* a frame of another type arrived while the call was pending and was
\* reported; the response that followed it reached the call
C30_Witness ==
  /\ Len(dispatched) = 2
  /\ dispatched[1] = <<ExecuteRequest>> /\ anomalies = <<dispatched[1]>>
  /\ dispatched[2] # << >> /\ dispatched[2][1] = ExecuteResponse
  /\ calls[1].outcome.kind = "resolved" /\ removals[1] = 1
  /\ armed[1] # 0

\* a step in which socket s, which is not the socket this.socket refers to,
\* emitted 'close' while the client has a newer socket
StaleClose(s) ==
  /\ sockets[s] # "closed" /\ sockets'[s] = "closed"
  /\ socket # NoSocket /\ socket # s

\* C34: the late 'close' event of a socket that close() has dealt with and that
\* a newer connection has superseded leaves this.socket referring to the newer
\* socket and rejects no request pending on the newer connection.
C34_StaleCloseHarmless ==
  [][ \A s \in Sockets : StaleClose(s) =>
        /\ socket' = socket
        /\ pendingRequests' = pendingRequests
        /\ \A c \in Calls : calls[c].pc = "waiting" => calls'[c] = calls[c]
    ]_vars

\* ------------------------------------------------ connections that end mid-frame
\* the runtime stops while it writes frame f: only the first k bytes of the
\* frame, the length prefix and part of the body, reach the connection
RuntimeWritePart(f, k) ==
  /\ ~crashed
  /\ UNCHANGED <<useTcp, config, now, calledAt, redundant, retryVars, goVars>>
  /\ socket # NoSocket /\ sockets[socket] = "open"
  /\ Len(sent) < MaxFrames
  /\ k \in FRAME_LENGTH_SIZE..(Len(EncodeFrame(f)) - 1)
  /\ sent' = Append(sent, [hdr |-> f.hdr, body |-> slice(f.body, 0, k - FRAME_LENGTH_SIZE)])
  /\ wire' = wire \o slice(EncodeFrame(f), 0, k)
  /\ UNCHANGED <<outbound, armed, socket, sockets, connTimers, connPromise, connOwner, transport, endCbs,
                 requestIdSeq, pendingRequests, timers, receiveBuffer, calls,
                 crashed, settles, removals, discarded, failAlls, dispatched, peak,
                 anomalies, oversized>>

\* 'close' event of socket s after every byte the runtime wrote on the
\* connection has been received
PeerClose(s) ==
  /\ wire = << >>
  /\ SocketClose(s)

\* connections that the runtime ends, possibly in the middle of a frame, and
\* that the next executeHTTP() opens again
NextReconnect ==
  \/ \E c \in Calls : ExecuteHTTP(c)
  \/ \E c \in Calls : WriteDone(c)
  \/ \E s \in Sockets : ConnectOk(s)
  \/ \E k \in 1..(2 * FRAME_LENGTH_SIZE) :
       RuntimeWritePart(Response(DateNow + 1, Success, PayloadJSON), k)
  \/ \E k \in 1..(MaxFrames * 8) : Deliver(k)
  \/ \E s \in Sockets : PeerClose(s)

SpecReconnect == Init /\ [][NextReconnect]_vars

\* C35: bytes of an incomplete frame left in receiveBuffer when a connection
\* ends are never combined with bytes of a later connection: while the client's
\* socket is a new one on which no byte has been received yet (it is still
\* connecting), receiveBuffer is empty, so that the first frame decoded on the
\* connection starts at the first byte received on it.
C35_BufferStartsEmpty ==
  (socket # NoSocket /\ sockets[socket] = "connecting") => receiveBuffer = << >>

\* C36: handleData never throws, whatever bytes are received: no exception
\* escapes the 'data' handler, in particular not for a frame that declares
\* length 0 and so has no message-type byte for processFrame to read.
C36_HandleDataNeverThrows == ~crashed

\* a step in which a promise returned by connect() resolves: the 'connect'
\* event resolves the promise of a connect() that created a socket, and a
\* connect() that finds this.socket set returns, and so resolves, at once
ConnectResolves ==
  \/ \E s \in Sockets : connPromise[s] = "pending" /\ connPromise'[s] = "resolved"
  \/ /\ Len(redundant') > Len(redundant)
     /\ redundant'[Len(redundant')] = "connect"

\* C38: whenever a promise returned by connect() resolves, the client's socket
\* is connected, also for a second connect() issued while a first one is still
\* connecting.
C38_ResolvedMeansConnected ==
  [][ ConnectResolves => (socket' # NoSocket /\ sockets'[socket'] = "open") ]_vars

\* the requestIds under which call c has an entry in the pending table
EntriesOf(c) == {r \in DOMAIN pendingRequests : pendingRequests[r] = c}

\* C39: timer/entry invariant of the pending table: a call has an armed
\* deadline timer exactly when it has an entry in the table, the entry is the
\* one under the call's own requestId and the call still awaits its outcome;
\* so no timer is left to fire for a request that a response or a connection
\* failure has completed.
C39_TimerIffEntry ==
  \A c \in Calls :
    /\ c \in timers <=> InTable(c)
    /\ c \in timers => /\ EntriesOf(c) = {calls[c].requestId}
                       /\ calls[c].pc = "waiting"
    /\ Done(c) => c \notin timers

\* a request was completed by its response (its timer is cleared) while another
\* request still has its entry and its armed timer
C39_Witness ==
  \E c, d \in Calls :
    /\ Done(c) /\ calls[c].outcome.kind = "resolved"
    /\ d \in timers /\ InTable(d)

\* a step in which executeHTTP call c rejects because sendFrame failed: the
\* socket was missing ('Not connected to runtime'), or the write did not
\* complete (socket closed, write error)
SendFails(c) ==
  /\ ~Done(c) /\ calls'[c].pc = "done"
  /\ calls'[c].outcome.kind = "rejected"
  /\ calls'[c].outcome.msg \in {"Not connected to runtime", "write failed"}

C40_WitnessNotConnected ==
  \E c \in Calls :
    /\ Done(c) /\ calls[c].outcome.kind = "rejected"
    /\ calls[c].outcome.msg = "Not connected to runtime"

\* ------------------------------------------------ the Go client's connection
FrameLengthSize == 4
MessageTypeSize == 1
MessageTypeExecuteRequest == 0
MessageTypeExecuteResponse == 1
MessageTypeHealthResponse == 3

\* uint32 values are kept as <<high 16 bits, low 16 bits>>
Half == 65536
MaxPayloadSize == <<160, 0>>       \* 10 * 1024 * 1024

\* binary.BigEndian.Uint32(b)
BigEndianUint32(b) == <<b[1] * 256 + b[2], b[3] * 256 + b[4]>>

\* binary.BigEndian.PutUint32 of a length below 2^16
PutUint32(n) == <<0, 0, n \div 256, n % 256>>

\* a > b for uint32 values
gt32(a, b) == a[1] > b[1] \/ (a[1] = b[1] /\ a[2] > b[2])

\* a - b in uint32 arithmetic, for a constant b below 2^16: the result wraps
\* around when a < b
sub32(a, b) ==
  IF a[2] >= b THEN <<a[1], a[2] - b>>
  ELSE <<(a[1] - 1) % Half, a[2] - b + Half>>

\* connect(): the dials it makes, what c.conn becomes and whether it returns
\* an error, given which of the two dials would succeed
connect_noFallback(useTCP, os, unixOk, tcpOk) ==
  IF ~useTCP /\ os \in {"linux", "darwin"}
  THEN [dials |-> << <<"unix", unixOk>> >>,
        conn |-> IF unixOk THEN "unix" ELSE "nil", err |-> ~unixOk]
  ELSE [dials |-> << <<"tcp", tcpOk>> >>,
        conn |-> IF tcpOk THEN "tcp" ELSE "nil", err |-> ~tcpOk]
connect(useTCP, os, unixOk, tcpOk) ==
  LET connectTCP(before) ==
        [dials |-> Append(before, <<"tcp", tcpOk>>),
         conn |-> IF tcpOk THEN "tcp" ELSE "nil", err |-> ~tcpOk]
  IN
  IF useTCP THEN connectTCP(<< >>)
  ELSE IF os \in {"linux", "darwin"}
       THEN IF unixOk
            THEN [dials |-> << <<"unix", TRUE>> >>, conn |-> "unix", err |-> FALSE]
            ELSE connectTCP(<< <<"unix", FALSE>> >>)
       ELSE connectTCP(<< >>)

Platforms == {"linux", "darwin", "windows"}

\* NewRuntimeClientWithOptions on platform os, with VASTAR_USE_TCP set to
\* "true" or not, the runtime listening on the Unix socket and on the TCP port
\* or not
NewRuntimeClientWithOptions(os, useTCP, unixOk, tcpOk) ==
  /\ newClient = "none"
  /\ platform' = os
  /\ envUseTCP' = useTCP
  /\ LET c == connect(useTCP, os, unixOk, tcpOk)
     IN /\ dials' = c.dials
        /\ conn' = c.conn
        /\ newClient' = IF c.err THEN "error" ELSE "client"
  /\ UNCHANGED <<requestIDSeq, goIssued, goCalls, connOut, connIn, answered, returns, allocs,
                 clientVars, retryVars>>

\* ExecuteHTTP in goroutine g: it takes its request ID and builds the request
GoExecuteHTTP(g) ==
  /\ newClient = "client"
  /\ goCalls[g].pc = "idle"
  /\ Len(goIssued) < MaxGoCalls
  /\ requestIDSeq' = nextRequestID(requestIDSeq)
  /\ goIssued' = Append(goIssued, <<g, nextRequestID(requestIDSeq)>>)
  /\ goCalls' = [goCalls EXCEPT ![g] = [pc |-> "length",
                                        requestID |-> nextRequestID(requestIDSeq)]]
  /\ UNCHANGED <<platform, envUseTCP, newClient, dials, conn, connOut, connIn, answered,
                 returns, allocs, clientVars, retryVars>>

\* sendFrame: the part written after part p, and "receive" after the payload
afterPart(p) ==
  CASE p = "length" -> "type"
    [] p = "type" -> "payload"
    [] p = "payload" -> "receive"

\* sendFrame in goroutine g: one c.conn.Write, of the length prefix, of the
\* message type or of the payload
GoWrite(g) ==
  /\ goCalls[g].pc \in {"length", "type", "payload"}
  /\ connOut' = Append(connOut, <<goCalls[g].requestID, goCalls[g].pc>>)
  /\ goCalls' = [goCalls EXCEPT ![g].pc = afterPart(@)]
  /\ UNCHANGED <<requestIDSeq, goIssued, platform, envUseTCP, newClient, dials, conn,
                 connIn, answered, returns, allocs, clientVars, retryVars>>

\* the three parts of request id lie on the connection one after the other
Contiguous(id) ==
  \E i \in 1..Len(connOut) :
    /\ i + 2 <= Len(connOut)
    /\ connOut[i] = <<id, "length">>
    /\ connOut[i + 1] = <<id, "type">>
    /\ connOut[i + 2] = <<id, "payload">>

\* size of the payload of an ExecuteResponse of the runtime
ResponseSize == 5

\* the ExecuteResponse frame of the runtime for request id: the length bytes,
\* the message type, the request_id of the table, and how many bytes follow the
\* length prefix on the connection
GoResponse(id) ==
  [length |-> PutUint32(MessageTypeSize + ResponseSize),
   type |-> MessageTypeExecuteResponse, requestId |-> id,
   more |-> MessageTypeSize + ResponseSize]

\* the runtime answers a request whose frame it received whole
RuntimeAnswer(id) ==
  /\ Contiguous(id)
  /\ id \notin answered
  /\ answered' = answered \cup {id}
  /\ connIn' = Append(connIn, GoResponse(id))
  /\ UNCHANGED <<requestIDSeq, goIssued, platform, envUseTCP, newClient, dials, conn,
                 goCalls, connOut, returns, allocs, clientVars, retryVars>>

\* receiveFrame() on a connection whose next bytes are those of frame: the
\* error it returns ("" for nil), the message type, the payload (the
\* request_id it carries) and the payload buffers it allocated
receiveFrame(frame) ==
  LET totalLen == BigEndianUint32(frame.length) IN
  IF gt32(totalLen, MaxPayloadSize)
  THEN [err |-> "payload too large", type |-> 0, requestId |-> 0, alloc |-> << >>]
  ELSE IF frame.more < MessageTypeSize
  THEN \* the read deadline passes before a type byte arrives
       [err |-> "failed to read message type", type |-> 0, requestId |-> 0, alloc |-> << >>]
  ELSE LET payloadLen == sub32(totalLen, MessageTypeSize) IN
       IF gt32(payloadLen, <<0, frame.more - MessageTypeSize>>)
       THEN \* the buffer is allocated, the deadline passes before it is filled
            [err |-> "failed to read frame payload", type |-> 0, requestId |-> 0,
             alloc |-> <<payloadLen>>]
       ELSE [err |-> "", type |-> frame.type, requestId |-> frame.requestId,
             alloc |-> <<payloadLen>>]

\* what ExecuteHTTP returns after receiveFrame returned r: an error, or the
\* HTTPResponse with RequestID: response.RequestId()
HTTPResponse(requestID, r) ==
  IF r.err # "" THEN [err |-> "failed to receive response", RequestID |-> 0]
  ELSE IF r.type # MessageTypeExecuteResponse
  THEN [err |-> "unexpected message type", RequestID |-> 0]
  ELSE [err |-> "", RequestID |-> r.requestId]

\* ExecuteHTTP in goroutine g returns res
GoReturn(g, res) ==
  /\ returns' = Append(returns, [g |-> g, sent |-> goCalls[g].requestID,
                                 err |-> res.err, RequestID |-> res.RequestID])
  /\ goCalls' = [goCalls EXCEPT ![g] = [pc |-> "idle", requestID |-> 0]]

\* receiveFrame in goroutine g reads the next frame of the connection, and
\* ExecuteHTTP returns
GoReceive(g) ==
  /\ goCalls[g].pc = "receive"
  /\ connIn # << >>
  /\ LET r == receiveFrame(Head(connIn))
     IN /\ allocs' = allocs \o r.alloc
        /\ GoReturn(g, HTTPResponse(goCalls[g].requestID, r))
  /\ connIn' = Tail(connIn)
  /\ UNCHANGED <<requestIDSeq, goIssued, platform, envUseTCP, newClient, dials, conn,
                 connOut, answered, clientVars, retryVars>>

\* receiveFrame in goroutine g: the read deadline passes with nothing to read
GoReadTimeout(g) ==
  /\ goCalls[g].pc = "receive"
  /\ connIn = << >>
  /\ GoReturn(g, [err |-> "failed to receive response", RequestID |-> 0])
  /\ UNCHANGED <<requestIDSeq, goIssued, platform, envUseTCP, newClient, dials, conn,
                 connOut, connIn, answered, allocs, clientVars, retryVars>>

\* a frame that declares the length bytes l and is followed on the connection
\* by m more bytes
PeerFrame(l, m) ==
  [length |-> l, type |-> MessageTypeHealthResponse, requestId |-> 0, more |-> m]

\* frames of a peer that does not keep to the protocol: declared length 0
\* followed by no byte or by one byte, declared lengths 1 and MaxPayloadSize
\* followed by the type byte only, and the header alone of declared lengths
\* MaxPayloadSize + 1 and 2^32 - 1
PeerFrames ==
  {PeerFrame(<<0, 0, 0, 0>>, 0), PeerFrame(<<0, 0, 0, 0>>, MessageTypeSize),
   PeerFrame(<<0, 0, 0, 1>>, MessageTypeSize), PeerFrame(<<0, 160, 0, 0>>, MessageTypeSize),
   PeerFrame(<<0, 160, 0, 1>>, 0), PeerFrame(<<255, 255, 255, 255>>, 0)}

\* the peer writes frame f where the runtime's response is awaited
PeerWrite(f) ==
  /\ newClient = "client"
  /\ connIn = << >>
  /\ \E g \in Goroutines : goCalls[g].pc = "receive"
  /\ connIn' = Append(connIn, f)
  /\ UNCHANGED <<requestIDSeq, goIssued, platform, envUseTCP, newClient, dials, conn,
                 goCalls, connOut, answered, returns, allocs, clientVars, retryVars>>

\* a Go client from its construction on: goroutines that call ExecuteHTTP, and
\* the runtime that answers the requests it received
NextGo ==
  \/ \E os \in Platforms, useTCP, unixOk, tcpOk \in BOOLEAN :
       NewRuntimeClientWithOptions(os, useTCP, unixOk, tcpOk)
  \/ \E g \in Goroutines : GoExecuteHTTP(g)
  \/ \E g \in Goroutines : GoWrite(g)
  \/ \E id \in (UnixNano + 1)..(UnixNano + MaxGoCalls) : RuntimeAnswer(id)
  \/ \E g \in Goroutines : GoReceive(g)
  \/ \E g \in Goroutines : GoReadTimeout(g)

SpecGo == Init /\ [][NextGo]_vars

\* a Go client, connected over TCP, that reads the frames of an arbitrary peer
NextGoFrames ==
  \/ NewRuntimeClientWithOptions("windows", FALSE, FALSE, TRUE)
  \/ \E g \in Goroutines : GoExecuteHTTP(g)
  \/ \E g \in Goroutines : GoWrite(g)
  \/ \E f \in PeerFrames : PeerWrite(f)
  \/ \E g \in Goroutines : GoReceive(g)
  \/ \E g \in Goroutines : GoReadTimeout(g)

SpecGoFrames == Init /\ [][NextGoFrames]_vars

\* C37: receiveFrame never allocates a payload buffer longer than
\* MaxPayloadSize: every payloadLen it computed and allocated, for whatever
\* length the frame declared, is at most MaxPayloadSize.
C37_PayloadBounded ==
  \A i \in 1..Len(allocs) : ~gt32(allocs[i], MaxPayloadSize)

\* C32: when several goroutines call ExecuteHTTP on one client, the length
\* prefix, the message type and the payload of one call's frame reach the
\* connection one after the other: a length prefix on the connection is
\* followed by the message type and the payload of the same call, as far as
\* the connection's content goes.
C32_FrameContiguous ==
  \A i \in 1..Len(connOut) :
    connOut[i][2] = "length" =>
      /\ i + 1 <= Len(connOut) => connOut[i + 1] = <<connOut[i][1], "type">>
      /\ i + 2 <= Len(connOut) => connOut[i + 2] = <<connOut[i][1], "payload">>

\* C31: ExecuteHTTP never returns to a caller a response that belongs to
\* another request: every response a call returned has the RequestID the call
\* sent.
C31_ResponseBelongsToCall ==
  \A i \in 1..Len(returns) :
    returns[i].err = "" => returns[i].RequestID = returns[i].sent

\* a Go client from its construction to the calls of one goroutine, which the
\* runtime answers or leaves unanswered
NextGoConnect ==
  \/ \E os \in Platforms, useTCP, unixOk, tcpOk \in BOOLEAN :
       NewRuntimeClientWithOptions(os, useTCP, unixOk, tcpOk)
  \/ GoExecuteHTTP(1)
  \/ GoWrite(1)
  \/ \E id \in (UnixNano + 1)..(UnixNano + MaxGoCalls) : RuntimeAnswer(id)
  \/ GoReceive(1)
  \/ GoReadTimeout(1)

SpecGoConnect == Init /\ [][NextGoConnect]_vars

\* the networks connect() dialled, in order
Dialled == [i \in 1..Len(dials) |-> dials[i][1]]

\* C33: with VASTAR_USE_TCP=true connect() tries TCP only; otherwise on linux
\* and darwin it tries the Unix socket first and TCP if and only if the
\* Unix-socket dial failed; on every other platform it tries TCP directly; and
\* NewRuntimeClientWithOptions returns an error and no client exactly when the
\* last path it tried failed (otherwise the client holds that connection).
C33_ConnectPaths ==
  newClient # "none" =>
    /\ envUseTCP => Dialled = <<"tcp">>
    /\ (~envUseTCP /\ platform \in {"linux", "darwin"}) =>
         /\ dials[1][1] = "unix"
         /\ Len(dials) = (IF dials[1][2] THEN 1 ELSE 2)
         /\ Len(dials) = 2 => dials[2][1] = "tcp"
    /\ (~envUseTCP /\ platform \notin {"linux", "darwin"}) => Dialled = <<"tcp">>
    /\ newClient = "error" <=> ~dials[Len(dials)][2]
    /\ newClient = "error" => conn = "nil" /\ goIssued = << >>
    /\ newClient = "client" => conn = dials[Len(dials)][1]

\* the Unix-socket dial failed, the TCP dial succeeded, and the client that was
\* returned has sent a request over the TCP connection
C33_Witness ==
  /\ newClient = "client"
  /\ Dialled = <<"unix", "tcp">>
  /\ conn = "tcp"
  /\ connOut # << >>

\* the late response: a call failed with a read timeout, and the next call of
\* the same goroutine returned the response to the request of the failed call
LateResponseReturned ==
  \E i, j \in 1..Len(returns) :
    /\ i < j /\ returns[i].g = returns[j].g
    /\ returns[i].err # ""
    /\ returns[j].err = "" /\ returns[j].RequestID = returns[i].sent
    /\ returns[j].sent # returns[i].sent
====
